---------------------------- MODULE Spec2Model ----------------------------
(***************************************************************************)
(* Time-bounded segmented prime sieves of thomasedgemon/rpi_testing.       *)
(*                                                                         *)
(* Programs modelled here:                                                 *)
(*   - optimized_multi_core_pi.cpp (src/unnamed/part_000, lines 398-730):  *)
(*     BasePrimes, WorkAllocator, worker, main.  Specification Spec.       *)
(*   - BasePrimes::ensure and extend_base_primes called one call at a      *)
(*     time.  Specification SpecBase.                                      *)
(*   - optimized_multi_core.cpp: worker_thread's base-prime sharing.       *)
(*     Specification SpecMC; SpecLock runs either multi-threaded program.  *)
(*                                                                         *)
(* Sizes are scaled: the source's segment holds 131072 odd numbers and a   *)
(* chunk 32 segments; the model's hold SEG_BITS and CHUNK_SEGS.  TLC's     *)
(* integers are 32-bit signed, so u32 is modelled 30 bits wide (U32_MAX);  *)
(* no value of a bounded run comes near it.                                *)
(***************************************************************************)
EXTENDS Integers, Sequences, FiniteSets, TLC

(* ------------------------------ bounds -------------------------------- *)
\* number of worker threads (main: threads, default 3, or argv[2])
NumThreads == 2
\* chunks the allocator hands out before the model stops claiming
MaxChunks == 2
\* WorkAllocator::SEG_BITS (= SEG_ODDS), 131072 in the source
SEG_BITS == 8
\* WorkAllocator::CHUNK_SEGS, 32 in the source
CHUNK_SEGS == 2
\* main's bootstrap base_shared.ensure(100), scaled with the segment
BOOTSTRAP == 2
\* largest argument of a stand-alone ensure / extend_base_primes call
MaxNeed == 12
\* optimized_multi_core.cpp: SEG_SIZE, 32000 in the source
SEG_SIZE == 8
\* optimized_multi_core.cpp: segments claimed before the model stops claiming
MaxSegs == 3
\* fixed-width inputs: how far around 1, half the range and the maximum
Near == 3
\* refactor variant: SEG_BYTES = flags.size(), 512 * 1024 in the source
RF_SEG_BYTES == 8
\* refactor variant: segments sieved before the model stops
RfMaxSegs == 3

\* largest thread count given as argv[2]
MaxArg == 4

\* odd positions of a segment when one strike loop is looked at alone: wide
\* enough for the loop unrolled by 4 to run twice for p = 3
STRIKE_BITS == 24

\* segments a strike loop is applied to alone
StrikeSegs == 3

\* largest base prime a strike loop is applied with alone
MaxStrikePrime == 13

\* largest value of hardware_concurrency()
MaxHw == 4

\* segments [2 + k*SEG_SIZE, ...) handed to one call of a sieve routine
SieveSegs == 16

\* largest segment_size given to SegmentedSieve
GsMaxSize == 6

\* segments a SegmentedSieve search walks through
GsSegs == 4

\* the limit the SegmentedSieve constructor sieves its base primes for
\* (10000000 in the source, scaled to the segments above)
GsBaseLimit == 4

\* MAX_EXPECTED_RANGE of primes_quad_core.cpp (1'000'000'000 in the source)
QcMaxRange == 200

\* NUM_THREADS of primes_quad_core.cpp (4 in the source)
QC_NUM_THREADS == 2

\* segments the producer of primes_quad_core.cpp adds at most
QcMaxSegs == 7

\* largest n given to ensure_primes_up_to
MaxEnsure == 12

\* trim_cache_if_needed clears a cache of more primes than this (250000 in
\* the source)
TRIM_SIZE == 3

\* calls made on one StreamingPrimeGenerator
GenCalls == 4

\* largest segment size set on a SegmentedSieve, and calls of get_next_segment
GsMaxSegment == 4

GsMaxCalls == 3

(* ----------------------------- arithmetic ----------------------------- *)
U32_MAX == 2^30 - 1

Max(a, b) == IF a >= b THEN a ELSE b

Min(a, b) == IF a <= b THEN a ELSE b

\* (u64)floor(sqrt((long double)n))
Isqrt(n) == CHOOSE r \in 0..n : r * r <= n /\ (r + 1) * (r + 1) > n

Range(s) == {s[i] : i \in 1..Len(s)}

\* the largest element of a set of numbers, 0 for the empty set
Largest(S) == IF S = {} THEN 0 ELSE CHOOSE v \in S : \A x \in S : x <= v

(* -------------------- BasePrimes (shared base primes) ------------------ *)
\* for (u64 j = start; j <= target; j += step) mark[j] = 0;
\* mark is the set of indices whose byte is 1
StrikeFrom(mark, start, step, target) ==
    mark \ {j \in start..target : (j - start) % step = 0}

\* vector<u8> mark(target + 1, 1); mark[0] = 0; mark[1] = 0;
InitMark(target) == (0..target) \ {0, 1}

\* mutant of PreMark: striking starts at p, so p itself is cleared
RECURSIVE PreMarkSelf(_, _, _, _)
PreMarkSelf(mark, ps, k, target) ==
    IF k > Len(ps) THEN mark
    ELSE IF ps[k] > target THEN mark
    ELSE PreMarkSelf(StrikeFrom(mark, ps[k], ps[k], target), ps, k + 1, target)

\* for (u32 p : primes) { start = p*p; if (start > target) break; strike }
RECURSIVE PreMark(_, _, _, _)
PreMark(mark, ps, k, target) ==
    IF k > Len(ps) THEN mark
    ELSE IF ps[k] * ps[k] > target THEN mark
    ELSE PreMark(StrikeFrom(mark, ps[k] * ps[k], ps[k], target), ps, k + 1, target)

\* mutant of MainMark: the loop bound i*i < target misses a square target
RECURSIVE MainMarkStrict(_, _, _)
MainMarkStrict(mark, i, target) ==
    IF i * i >= target THEN mark
    ELSE IF i \notin mark THEN MainMarkStrict(mark, i + 1, target)
    ELSE MainMarkStrict(StrikeFrom(mark, i * i, i, target), i + 1, target)

\* for (u32 i = 2; (u64)i*i <= target; ++i) { if (!mark[i]) continue; strike }
RECURSIVE MainMark(_, _, _)
MainMark(mark, i, target) ==
    IF i * i > target THEN mark
    ELSE IF i \notin mark THEN MainMark(mark, i + 1, target)
    ELSE MainMark(StrikeFrom(mark, i * i, i, target), i + 1, target)

\* for (u32 i = from; i <= target; ++i) if (mark[i]) primes.push_back(i);
RECURSIVE Collect(_, _, _)
Collect(mark, i, target) ==
    IF i > target THEN <<>>
    ELSE (IF i \in mark THEN <<i>> ELSE <<>>) \o Collect(mark, i + 1, target)

\* u32 target = max(new_need, sieved_to ? min(U32_MAX, sieved_to * 2u) : new_need)
EnsureTarget(new_need, st) ==
    Max(new_need,
        IF st # 0 THEN Min(U32_MAX, (st * 2) % (U32_MAX + 1)) ELSE new_need)

\* the list ensure rebuilds: mark array, pre-mark, sieve, collect
SimpleSieve(target, ps) ==
    Collect(MainMark(PreMark(InitMark(target), ps, 1, target), 2, target), 2, target)

\* mutant of EnsureGuard: '<' for '<=' makes ensure(sieved_to) rebuild
EnsureGuardStrict(new_need, st) == new_need < st

\* if (new_need <= sieved_to) return;
EnsureGuard(new_need, st) == new_need <= st

\* BasePrimes::ensure run by one caller with nobody else in it
EnsureCall(tbl, new_need) ==
    IF EnsureGuard(new_need, tbl.sieved_to) THEN tbl
    ELSE LET target == EnsureTarget(new_need, tbl.sieved_to) IN
         [tbl EXCEPT !.primes = SimpleSieve(target, tbl.primes),
                     !.sieved_to = target]

\* the sieved_to that ensure(new_need) leaves on a table sieved to st
EnsureSievedTo(new_need, st) ==
    IF EnsureGuard(new_need, st) THEN st ELSE EnsureTarget(new_need, st)

(* ---------------- extend_base_primes (refactor variant) ---------------- *)
\* u64 start = max(p*p, ((old + p - 1) / p) * p)
ExtendStart(p, old) == Max(p * p, ((old + p - 1) \div p) * p)

\* for (u32 p : base) strike from ExtendStart(p, old)
RECURSIVE ExtendPreMark(_, _, _, _, _)
ExtendPreMark(mark, b, k, old, n) ==
    IF k > Len(b) THEN mark
    ELSE ExtendPreMark(StrikeFrom(mark, ExtendStart(b[k], old), b[k], n),
                       b, k + 1, old, n)

\* for (u32 i = 2; (u64)i*i <= n; ++i) { if (!mark[i]) continue; strike }
RECURSIVE ExtendMainMark(_, _, _, _)
ExtendMainMark(mark, i, old, n) ==
    IF i * i > n THEN mark
    ELSE IF i \notin mark THEN ExtendMainMark(mark, i + 1, old, n)
    ELSE ExtendMainMark(StrikeFrom(mark, ExtendStart(i, old), i, n), i + 1, old, n)

\* extend_base_primes(new_limit, base, sieved_to): the pair it leaves
ExtendBasePrimes(new_limit, b, st) ==
    IF new_limit <= st THEN [base |-> b, sieved_to |-> st]
    ELSE LET old == Max(2, st + 1)
             n == new_limit
             mark == ExtendMainMark(
                         ExtendPreMark(InitMark(n), b, 1, old, n), 2, old, n)
         IN [base |-> b \o Collect(mark, IF st < 2 THEN 2 ELSE old, n),
             sieved_to |-> n]

(* ------------- optimized_segmented_sieve_refactor: one segment ---------- *)
\* first_odd_multiple_ge(lo, p)
FirstOddMultipleGe(lo, p) ==
    LET m == IF lo % p = 0 THEN lo ELSE lo + (p - (lo % p))
    IN IF m % 2 = 0 THEN m + p ELSE m

\* "Prepare next_mult on first segment or when base grew": every entry is
\* initialised again from the current lo
RfSeed(nm, b, lo) ==
    IF Len(nm) = Len(b) THEN nm
    ELSE [i \in 1..Len(b) |->
             IF b[i] < 3 THEN 0 ELSE FirstOddMultipleGe(lo, b[i])]

\* while (delta >= jump4) { j += jump4; delta -= jump4; }
RECURSIVE RfJump4(_, _, _)
RfJump4(j, delta, jump4) ==
    IF delta >= jump4 THEN RfJump4(j + jump4, delta - jump4, jump4) ELSE j

\* while (j < lo) j += step;
RECURSIVE RfStepTo(_, _, _)
RfStepTo(j, lo, step) == IF j < lo THEN RfStepTo(j + step, lo, step) ELSE j

\* if (j < lo) fast-forward by repeated addition
RfFastForward(j, lo, step) ==
    IF j < lo THEN RfStepTo(RfJump4(j, lo - j, step * 4), lo, step) ELSE j

\* for (; j < hi; j += step) flags[(j - lo_odd) >> 1] = 0;
RECURSIVE RfStrikeFrom(_, _, _, _, _)
RfStrikeFrom(flags, j, step, lo_odd, hi) ==
    IF j < hi
    THEN RfStrikeFrom(IF j >= lo_odd THEN flags \ {(j - lo_odd) \div 2} ELSE flags,
                      j + step, step, lo_odd, hi)
    ELSE [flags |-> flags, j |-> j]

\* the strike loop over base[bi..]: the flags, the cursors carried on and
\* the cursors each prime's striking started from
RECURSIVE RfStrikeAll(_, _, _, _, _, _, _, _)
RfStrikeAll(flags, nm, sm, b, bi, lo, lo_odd, hi) ==
    IF bi > Len(b) THEN [flags |-> flags, next_mult |-> nm, start_mult |-> sm]
    ELSE LET step == b[bi] * 2
             j == RfFastForward(nm[bi], lo, step)
             r == RfStrikeFrom(flags, j, step, lo_odd, hi)
         IN RfStrikeAll(r.flags, [nm EXCEPT ![bi] = r.j], [sm EXCEPT ![bi] = j],
                        b, bi + 1, lo, lo_odd, hi)

\* for (i = 0; i < len; ++i) if (flags[i] && v >= 3) { ++primes_count; ... }
RfSurvivors(flags, lo_odd) == {v \in {lo_odd + 2 * i : i \in flags} : v >= 3}

(* --------------------------- WorkAllocator ----------------------------- *)
SEG_ODDS == SEG_BITS

SEG_SPAN == SEG_ODDS * 2

CHUNK_SPAN == SEG_SPAN * CHUNK_SEGS

\* mutant of FetchAdd: the counter is read but the increment is lost
FetchAddLost(c) == c

\* next_chunk.fetch_add(1): the value the counter holds afterwards
FetchAdd(c) == (c + 1) % (U32_MAX + 1)

\* mutant of ChunkLo: the id is scaled by the segment span, not the chunk span
ChunkLoSegSpan(id) == 3 + id * SEG_SPAN

\* return 3 + (u64)id * CHUNK_SPAN;
ChunkLo(id) == 3 + id * CHUNK_SPAN

(* ------------------------- worker: one segment ------------------------- *)
\* mutant of SegLo: the segments of a chunk are walked from its top
SegLoReversed(chunk_lo, seg) == chunk_lo + (CHUNK_SEGS - 1 - seg) * SEG_SPAN

\* u64 lo = chunk_lo + seg * SEG_SPAN;
SegLo(chunk_lo, seg) == chunk_lo + seg * SEG_SPAN

\* u64 hi = lo + SEG_SPAN;
SegHi(lo) == lo + SEG_SPAN

\* u64 lo_odd = lo | 1ULL;
LoOdd(lo) == IF lo % 2 = 0 THEN lo + 1 ELSE lo

\* need64 = floor(sqrt(hi - 1)), clamped to u32
SegNeed(hi) == Min(Isqrt(hi - 1), U32_MAX)

\* mutant of FirstOddMultiple: the multiple is not made odd
FirstMultiple(lo_odd, p) == ((lo_odd + p - 1) \div p) * p

\* u64 m = ((lo_odd + p - 1) / p) * p; if ((m & 1) == 0) m += p;
FirstOddMultiple(lo_odd, p) ==
    LET m == ((lo_odd + p - 1) \div p) * p
    IN IF m % 2 = 0 THEN m + p ELSE m

\* mutant of SeedCursors: assign(size, 0) instead of resize(size, 0)
SeedCursorsAssign(nm, ps, lo_odd) ==
    IF Len(nm) = Len(ps) THEN nm
    ELSE [i \in 1..Len(ps) |->
             IF i <= Len(nm) \/ ps[i] = 2 THEN 0
             ELSE ((lo_odd + ps[i] - 1) \div ps[i]) * ps[i]
                      + (IF (((lo_odd + ps[i] - 1) \div ps[i]) * ps[i]) % 2 = 0
                         THEN ps[i] ELSE 0)]

\* lines 571-585: resize next_mult to primes.size(), seed the new entries
SeedCursors(nm, ps, lo_odd) ==
    IF Len(nm) = Len(ps) THEN nm
    ELSE [i \in 1..Len(ps) |->
             IF i <= Len(nm) THEN nm[i]
             ELSE IF ps[i] = 2 THEN 0
             ELSE FirstOddMultiple(lo_odd, ps[i])]

\* memset(flags, 0xFF): flags is the set of bit positions that are set
FullFlags == 0..(SEG_BITS - 1)

\* idx = (j - lo_odd) >> 1 in u64; if (idx < SEG_BITS) clear_bit(flags, idx);
\* j < lo_odd wraps to an index far beyond SEG_BITS
ClearAt(flags, j, lo_odd, seg_bits) ==
    IF j >= lo_odd /\ (j - lo_odd) \div 2 < seg_bits
    THEN flags \ {(j - lo_odd) \div 2}
    ELSE flags

\* mutant of Unrolled: the loop test looks at the first of the four only
RECURSIVE UnrolledLoose(_, _, _, _, _, _)
UnrolledLoose(flags, j, step, lo_odd, end, seg_bits) ==
    IF j < end
    THEN UnrolledLoose((((flags \ {(j - lo_odd) \div 2})
                           \ {(j + step - lo_odd) \div 2})
                           \ {(j + 2 * step - lo_odd) \div 2})
                           \ {(j + 3 * step - lo_odd) \div 2},
                       j + 4 * step, step, lo_odd, end, seg_bits)
    ELSE [flags |-> flags, j |-> j]

\* while (j + 3*step < end) { clear j, j+step, j+2*step, j+3*step; j += 4*step; }
RECURSIVE Unrolled(_, _, _, _, _, _)
Unrolled(flags, j, step, lo_odd, end, seg_bits) ==
    IF j + 3 * step < end
    THEN Unrolled(ClearAt(ClearAt(ClearAt(ClearAt(flags, j, lo_odd, seg_bits),
                      j + step, lo_odd, seg_bits), j + 2 * step, lo_odd, seg_bits),
                      j + 3 * step, lo_odd, seg_bits),
                  j + 4 * step, step, lo_odd, end, seg_bits)
    ELSE [flags |-> flags, j |-> j]

\* while (j < end) { clear j; j += step; }
\* mutant of Remainder: the loop after the unrolled one is missing
RemainderNone(flags, j, step, lo_odd, end, seg_bits) == [flags |-> flags, j |-> j]

RECURSIVE Remainder(_, _, _, _, _, _)
Remainder(flags, j, step, lo_odd, end, seg_bits) ==
    IF j < end
    THEN Remainder(ClearAt(flags, j, lo_odd, seg_bits), j + step, step, lo_odd,
                   end, seg_bits)
    ELSE [flags |-> flags, j |-> j]

\* u64 j = next_mult[bi]; if (j < lo_odd) { recalculate } : the cursor the
\* strike loop of p starts with
Revalidate(j0, p, lo_odd) ==
    IF j0 < lo_odd THEN FirstOddMultiple(lo_odd, p) ELSE j0

\* lines 597-634 for one base prime p whose cursor reads j0, in a segment
\* of seg_bits odd positions (SEG_SPAN = 2 * SEG_BITS)
StrikePrime(flags, j0, p, lo_odd, seg_bits) ==
    LET step == (p * 2) % (U32_MAX + 1)
        j == Revalidate(j0, p, lo_odd)
        end == lo_odd + 2 * seg_bits
    IN CHOOSE r \in {Remainder(u.flags, u.j, step, lo_odd, end, seg_bits) :
                        u \in {Unrolled(flags, j, step, lo_odd, end, seg_bits)}} : TRUE

\* start_idx: skip the even prime (1-based index of the first prime struck)
StartIdx(ps) == IF Len(ps) > 0 /\ ps[1] = 2 THEN 2 ELSE 1

\* for (bi = start_idx; bi < primes.size(); ++bi): next_mult[bi] beyond
\* next_mult.size() lies in the reserved, unsized storage: the read gives g,
\* the write does not show in the vector
RECURSIVE StrikeAll(_, _, _, _, _, _)
StrikeAll(flags, nm, ps, bi, lo_odd, g) ==
    IF bi > Len(ps) THEN [flags |-> flags, next_mult |-> nm]
    ELSE CHOOSE x \in
             {StrikeAll(r.flags,
                        IF bi <= Len(nm) THEN [nm EXCEPT ![bi] = r.j] ELSE nm,
                        ps, bi + 1, lo_odd, g) :
                  r \in {StrikePrime(flags, IF bi <= Len(nm) THEN nm[bi] ELSE g,
                                     ps[bi], lo_odd, SEG_BITS)}} : TRUE

\* what a read past next_mult.size() may give: behind the segment, inside it,
\* beyond it
Garbage(lo_odd) == {0, lo_odd, lo_odd + SEG_SPAN}

\* popcount_array(flags, SEG_U64S)
PopcountArray(flags) == Cardinality(flags)

\* mutant of SegLargest: the scan runs forwards and stops at the first set bit
SegLargestForward(flags, lo_odd, largest) ==
    IF flags = {} THEN largest
    ELSE Max(largest,
             lo_odd + 2 * (CHOOSE i \in flags : \A k \in flags : k >= i))

\* scan backwards for the last set bit; p = lo_odd + (i << 1)
SegLargest(flags, lo_odd, largest) ==
    IF flags = {} THEN largest
    ELSE Max(largest,
             lo_odd + 2 * (CHOOSE i \in flags : \A k \in flags : k <= i))

\* the values whose bits are set
Survivors(flags, lo_odd) == {lo_odd + 2 * i : i \in flags}

(* ------------------------ optimized_multi_core.cpp --------------------- *)
\* const int NUM_THREADS = 2;
NUM_THREADS == 2

\* small_primes: for (p = 2; p*p <= n; ++p) if (is_prime[p]) strike from p*p
RECURSIVE SmallMark(_, _, _)
SmallMark(is_prime, p, n) ==
    IF p * p > n THEN is_prime
    ELSE IF p \in is_prime
         THEN SmallMark(StrikeFrom(is_prime, p * p, p, n), p + 1, n)
         ELSE SmallMark(is_prime, p + 1, n)

\* static std::vector<u32> small_primes(u32 n)
SmallPrimes(n) ==
    IF n < 2 THEN <<>>
    ELSE Collect(SmallMark((0..n) \ {0, 1}, 2, n), 2, n)

\* u32 need = (u32)std::sqrt((double)high) + 1;
MCNeed(high) == Isqrt(high) + 1

\* mutant of NeedsExtend: the limit is never looked at
NeedsExtendAlways(need, limit) == TRUE

\* if (need > shared_base_limit.load()): outside the lock and again inside it
NeedsExtend(need, limit) == need > limit

\* std::fill(is_prime_bits, ~0ULL): the bit positions of the segment
MCFullBits == 0..(SEG_SIZE - 1)

\* while (j + 7*p < SEG_SIZE) { clear j, j+p, ..., j+7p }
RECURSIVE MCUnrolled(_, _, _)
MCUnrolled(bits, j, p) ==
    IF j + 7 * p < SEG_SIZE
    THEN MCUnrolled(bits \ {j + k * p : k \in 0..7}, j + 8 * p, p)
    ELSE [bits |-> bits, j |-> j]

\* while (j < SEG_SIZE) { clear j; j += p; }
RECURSIVE MCRemainder(_, _, _)
MCRemainder(bits, j, p) ==
    IF j < SEG_SIZE THEN MCRemainder(bits \ {j}, j + p, p) ELSE bits

\* worker_thread lines 119-162 for one base prime p
MCStrikePrime(bits, p, low, high) ==
    LET first == ((low + p - 1) \div p) * p
        start == IF first < p * p THEN p * p ELSE first
        j == start - low
    IN IF start >= high THEN bits
       ELSE IF p = 2
            THEN bits \ {i \in 0..(SEG_SIZE - 1) :
                            i % 2 = (IF low % 2 = 0 THEN 0 ELSE 1)}
       ELSE IF p < 64
            THEN MCRemainder(MCUnrolled(bits, j, p).bits, MCUnrolled(bits, j, p).j, p)
       ELSE MCRemainder(bits, j, p)

\* for (u32 p : local_base_primes) ...
RECURSIVE MCStrikeAll(_, _, _, _, _)
MCStrikeAll(bits, ps, k, low, high) ==
    IF k > Len(ps) THEN bits
    ELSE MCStrikeAll(MCStrikePrime(bits, ps[k], low, high), ps, k + 1, low, high)

\* "HANDLE SPECIAL CASES": clear 0 and 1 when the segment holds them
MCSpecialCases(bits, low, high) ==
    IF low <= 1
    THEN (IF low = 0 THEN bits \ {0} ELSE bits)
             \ (IF high > 1 THEN {1 - low} ELSE {})
    ELSE bits

\* the popcount over full words and the masked last word
MCCount(bits, low, high) ==
    Cardinality({i \in bits : i < Min(SEG_SIZE, high - low)})

\* lines 115-189: the bits left set in the segment [low, high)
MCSieveSegment(ps, low, high) ==
    MCSpecialCases(MCStrikeAll(MCFullBits, ps, 1, low, high), low, high)

MCThreads == 1..NUM_THREADS

\* main's shared state: global_low(2), total_prime_count(0), the base primes,
\* shared_base_limit(1), the mutex (0 free, else holder), and whether the
\* steady clock has passed the deadline
NewShared ==
    [global_low |-> 2, total_prime_count |-> 0, shared_base_primes |-> <<>>,
     shared_base_limit |-> 1, base_primes_mutex |-> 0, expired |-> FALSE]

\* worker_thread's locals
NewWorkerThread ==
    [pc |-> "unborn", low |-> 0, high |-> 0, need |-> 0,
     local_base_primes |-> <<>>, local_base_limit |-> 0,
     thread_prime_count |-> 0, is_prime_bits |-> {},
     counted_lows |-> <<>>]        \* history: low of every segment counted

(* ------------------------------- state --------------------------------- *)
VARIABLES
    base_shared,   \* BasePrimes: [primes, sieved_to, mtx (0 free, else holder)]
    alloc,         \* WorkAllocator: [next_chunk]
    counted_two,   \* worker's static bool counted_two
    th,            \* per worker thread: position and locals of worker()
    started,       \* worker threads in the order they read t0 = clock::now()
    main,          \* main(): [pc, spawned, joined, total, maxp, final_N_processed]
    results,       \* vector<ThreadResult> results(threads)
    issued,        \* history: [id, lo] of every get_chunk call, in order
    processed,     \* history: how often each segment (by index) was sieved
    base,          \* refactor variant: vector<u32> base
    base_sieved_to,\* refactor variant: u32 base_sieved_to
    call,          \* SpecBase: the last stand-alone call [op, arg]
    mcs,           \* optimized_multi_core.cpp: the state main shares by reference
    mc,            \* optimized_multi_core.cpp: per thread, worker_thread's locals
    mcmain,        \* optimized_multi_core.cpp: main(): [pc, spawned, joined, final_range]
    prog,          \* which program runs: "pi" (optimized_multi_core_pi), "mc"
                   \* (optimized_multi_core.cpp) or "rf" (the refactor variant)
    rf,            \* refactor variant: main()'s locals besides base, base_sieved_to
    ar,            \* fixed-width arithmetic applied to one input: [op, a, b, out]
    cfg,           \* main()'s argument handling: [pc, argc, t, hw_threads, threads, spawned]
    sk,            \* one strike loop applied to one input: [op, p, lo, lo_odd, hi, j0, before, flags, j, other, written]
    sg,            \* one segment sieved by one variant: [variant, low, high, ps, bits, counted]
    wq,            \* primes_quad_core.cpp: the WorkQueue, main() and the worker threads
    gen,           \* StreamingPrimeGenerator: [cached_primes, cache_limit] and the last call
    gs             \* SegmentedSieve: its members and what its calls returned

piVars == <<alloc, counted_two, th, started, main, results, issued, processed>>

\* the state of optimized_multi_core.cpp
mcVars == <<mcs, mc, mcmain>>

\* everything but the state of optimized_multi_core_pi
nonPi == <<base, base_sieved_to, call, mcVars, prog, rf, ar, cfg, sk, sg, wq, gen, gs>>

vars == <<base_shared, alloc, counted_two, th, started, main, results, issued,
          processed, base, base_sieved_to, call, mcs, mc, mcmain, prog, rf, ar, cfg, sk, sg, wq, gen, gs>>

Threads == 1..NumThreads

\* segments of the chunks the model hands out, by index from the base offset 3
SegIds == 0..(MaxChunks * CHUNK_SEGS - 1)

\* BasePrimes as constructed: primes empty, sieved_to = 1, mutex free
NewBasePrimes == [primes |-> <<>>, sieved_to |-> 1, mtx |-> 0]

\* ThreadResult as constructed
NewThreadResult ==
    [primes_count |-> 0, largest_prime |-> 0, segments_processed |-> 0,
     max_hi_processed |-> 0]

\* a worker thread before it runs: worker()'s locals
NewThread ==
    [pc |-> "unborn", expired |-> FALSE, chunk_lo |-> 0, seg |-> 0, lo |-> 0,
     hi |-> 0, need |-> 0, target |-> 0, pending |-> <<>>, next_mult |-> <<>>,
     flags |-> {}, used |-> <<>>, local_count |-> 0, local_largest |-> 0,
     local_segments |-> 0, local_max_hi |-> 0,
     \* history: the thread found counted_two false; the sum of its seg_count
     took_two |-> FALSE, sieved_count |-> 0,
     \* history: the largest value that survived in a segment of this thread
     max_survivor |-> 0,
     \* history: chunks claimed and segments sieved after the deadline passed
     late_chunks |-> 0, late_segs |-> 0, hw_mult |-> <<>>]

\* the refactor variant's main() before its loop: lo = 2, next_mult empty,
\* primes_count = largest_prime = 0, counted_two = false
NewRefactor ==
    [pc |-> "idle", lo |-> 2, lo_odd |-> 0, hi |-> 0, need |-> 0,
     next_mult |-> <<>>, start_mult |-> <<>>, flags |-> {}, primes_count |-> 0,
     largest_prime |-> 0, counted_two |-> FALSE, twos |-> 0, expired |-> FALSE,
     segs |-> 0]

\* no strike loop applied yet
NewStrike ==
    [op |-> "none", p |-> 0, lo |-> 0, lo_odd |-> 0, hi |-> 0, j0 |-> 0,
     before |-> {}, flags |-> {}, j |-> 0, other |-> {}, written |-> {}]

\* no segment sieved yet
NewSieve ==
    [variant |-> "none", low |-> 0, high |-> 0, ps |-> <<>>, bits |-> {},
     counted |-> {}]

\* primes_quad_core.cpp: WorkQueue work_queue; main's and the workers' locals
QCWorkers == 1..QC_NUM_THREADS

NewQueueDriver ==
    [segments |-> <<>>, mtx |-> 0, finished |-> FALSE, waiting |-> {},
     w |-> [t \in QCWorkers |-> [pc |-> "unborn", seg |-> [low |-> 0, high |-> 0]]],
     pc |-> "idle", spawned |-> 0, joined |-> 0, current_low |-> 2,
     max_range_processed |-> 2, size |-> 0, expired |-> FALSE,
     total_prime_count |-> 0,
     added |-> <<>>,        \* history: every segment add_segment was given
     got |-> <<>>,          \* history: every segment get_segment returned
     counted |-> [k \in 0..(QcMaxSegs - 1) |-> 0],
                            \* history: how often segment k was sieved and counted
     false_returns |-> 0,   \* history: get_segment calls that returned false
     notified |-> 0,        \* history: workers finish() woke from the wait
     was_full |-> FALSE]    \* history: the queue has held NUM_THREADS * 3 segments

\* StreamingPrimeGenerator() : cache_limit(0)
NewGenerator ==
    [cached_primes |-> <<>>, cache_limit |-> 0,
     local_primes |-> <<>>, local_prime_limit |-> 0,   \* pi_worker_thread's copy
     op |-> "new", n |-> 0,                            \* the last call
     before |-> [cached_primes |-> <<>>, cache_limit |-> 0],
     calls |-> 0,
     trims |-> 0]           \* history: trims that cleared the cache

\* SegmentedSieve(initial_segment_size): current_low(0), current_high(-1)
NewSegmentedSieve ==
    [pc |-> "new", segment_size |-> 0, current_low |-> 0, current_high |-> -1,
     base_primes |-> <<>>, calls |-> 0,
     lows |-> <<>>,         \* history: current_low of every segment returned
     highs |-> <<>>,        \* history: current_high of every segment returned
     returned |-> <<>>]     \* history: the returned lists, concatenated

\* main before it has looked at argv
NewConfig ==
    [pc |-> "args", argc |-> 1, t |-> 0, hw_threads |-> 0, threads |-> 0,
     spawned |-> 0]

InitCommon ==
    /\ base_shared = NewBasePrimes
    /\ alloc = [next_chunk |-> 0]
    /\ counted_two = FALSE
    /\ th = [t \in Threads |-> NewThread]
    /\ started = <<>>
    /\ main = [pc |-> "idle", spawned |-> 0, joined |-> 0, total |-> 0,
               maxp |-> 0, final_N_processed |-> 0]
    /\ results = [t \in Threads |-> NewThreadResult]
    /\ issued = <<>>
    /\ processed = [k \in SegIds |-> 0]
    /\ base = <<>>
    /\ base_sieved_to = 1
    /\ call = [op |-> "none", arg |-> 0]
    /\ mcs = NewShared
    /\ mc = [t \in MCThreads |-> NewWorkerThread]
    /\ mcmain = [pc |-> "idle", spawned |-> 0, joined |-> 0, final_range |-> 0]
    /\ rf = NewRefactor
    /\ ar = [op |-> "none", a |-> 0, b |-> 0, out |-> 0]
    /\ cfg = NewConfig
    /\ sk = NewStrike
    /\ sg = NewSieve
    /\ wq = NewQueueDriver
    /\ gen = NewGenerator
    /\ gs = NewSegmentedSieve

Init == InitCommon /\ prog = "pi"

(* ------------------- optimized_multi_core_pi: main --------------------- *)
\* BasePrimes base_shared; base_shared.ensure(100); WorkAllocator alloc;
MainStart ==
    /\ main.pc = "idle"
    /\ base_shared' = EnsureCall(base_shared, BOOTSTRAP)
    /\ main' = [main EXCEPT !.pc = "running"]
    /\ UNCHANGED <<alloc, counted_two, th, started, results, issued, processed,
                   nonPi>>

\* pool.emplace_back(worker, ...), one thread per pass of the loop
Spawn ==
    /\ main.pc = "running"
    /\ main.spawned < NumThreads
    /\ th' = [th EXCEPT ![main.spawned + 1].pc = "start"]
    /\ main' = [main EXCEPT !.spawned = main.spawned + 1,
                            !.pc = IF main.spawned + 1 = NumThreads
                                   THEN "draining" ELSE "running"]
    /\ UNCHANGED <<base_shared, alloc, counted_two, started, results, issued,
                   processed, nonPi>>

\* mutant of Joined: the driver does not wait for the thread
JoinedEarly(w) == TRUE

\* th.join() returns once the thread's function has returned
Joined(w) == w.pc = "finished"

\* for (auto& th : pool) th.join();
Join ==
    /\ main.pc = "draining"
    /\ main.joined < NumThreads
    /\ Joined(th[main.joined + 1])
    /\ main' = [main EXCEPT !.joined = main.joined + 1]
    /\ UNCHANGED <<base_shared, alloc, counted_two, th, started, results, issued,
                   processed, nonPi>>

RECURSIVE SumCounts(_, _)
SumCounts(res, n) ==
    IF n = 0 THEN 0 ELSE SumCounts(res, n - 1) + res[n].primes_count

RECURSIVE MaxLargest(_, _)
MaxLargest(res, n) ==
    IF n = 0 THEN 0 ELSE Max(MaxLargest(res, n - 1), res[n].largest_prime)

RECURSIVE MaxHi(_, _)
MaxHi(res, n) ==
    IF n = 0 THEN 0 ELSE Max(MaxHi(res, n - 1), res[n].max_hi_processed)

\* "Reduce results" and "Aggregate instrumentation"
Reduce ==
    /\ main.pc = "draining"
    /\ main.joined = NumThreads
    /\ main' = [main EXCEPT !.pc = "done",
                            !.total = SumCounts(results, NumThreads),
                            !.maxp = MaxLargest(results, NumThreads),
                            !.final_N_processed = MaxHi(results, NumThreads)]
    /\ UNCHANGED <<base_shared, alloc, counted_two, th, started, results, issued,
                   processed, nonPi>>

(* ------------------ optimized_multi_core_pi: worker -------------------- *)
\* the for loop's test and the segment's bounds (lines 558-567)
EnterSeg(w, seg) ==
    IF seg < CHUNK_SEGS
    THEN LET lo == SegLo(w.chunk_lo, seg) IN
         [w EXCEPT !.pc = "ensure", !.seg = seg, !.lo = lo, !.hi = SegHi(lo),
                   !.need = SegNeed(SegHi(lo))]
    ELSE [w EXCEPT !.pc = "chunk_dl", !.seg = seg]

\* mutant of TwoCount: the flag is not looked at
TwoCountAlways(ct) == 1

\* if (!counted_two) local_count = 1;  (local_count is 0 before)
TwoCount(ct) == IF ct THEN 0 ELSE 1

\* t0 = clock::now(); deadline = t0 + seconds; "Count 2 once" under two_mutex
WorkerStart(t) ==
    /\ th[t].pc = "start"
    /\ started' = Append(started, t)
    /\ counted_two' = TRUE
    /\ th' = [th EXCEPT ![t].pc = "loop",
                        ![t].local_count = TwoCount(counted_two),
                        ![t].took_two = (TwoCount(counted_two) = 1),
                        ![t].local_largest = IF counted_two THEN 0 ELSE 2]
    /\ UNCHANGED <<base_shared, alloc, main, results, issued, processed, nonPi>>

\* the steady clock passes thread t's deadline; deadlines are in start order
Expire(t) ==
    /\ \E i \in 1..Len(started) :
          /\ started[i] = t
          /\ \A k \in 1..(i - 1) : th[started[k]].expired
    /\ ~th[t].expired
    /\ th' = [th EXCEPT ![t].expired = TRUE]
    /\ UNCHANGED <<base_shared, alloc, counted_two, started, main, results,
                   issued, processed, nonPi>>

\* mutant of DeadlinePassed: the clock is never seen past the deadline
DeadlinePassedNever(w) == FALSE

\* clock::now() >= deadline
DeadlinePassed(w) == w.expired

\* while (clock::now() < deadline).  The run is cut at MaxChunks chunks: the
\* deadline passes before a thread finds it open with no chunk left for it
LoopTest(t) ==
    /\ th[t].pc = "loop"
    /\ \/ th[t].expired
       \/ alloc.next_chunk + Cardinality({u \in Threads : th[u].pc = "get"})
              < MaxChunks
    /\ th' = [th EXCEPT ![t].pc = IF DeadlinePassed(th[t]) THEN "out" ELSE "get"]
    /\ UNCHANGED <<base_shared, alloc, counted_two, started, main, results,
                   issued, processed, nonPi>>

\* u64 chunk_lo = alloc->get_chunk();
GetChunk(t) ==
    /\ th[t].pc = "get"
    /\ alloc.next_chunk < MaxChunks
    /\ alloc' = [alloc EXCEPT !.next_chunk = FetchAdd(alloc.next_chunk)]
    /\ issued' = Append(issued, [id |-> alloc.next_chunk,
                                 lo |-> ChunkLo(alloc.next_chunk)])
    /\ th' = [th EXCEPT ![t] =
                 EnterSeg([th[t] EXCEPT !.chunk_lo = ChunkLo(alloc.next_chunk),
                                        !.late_chunks =
                                            @ + (IF th[t].expired THEN 1 ELSE 0)], 0)]
    /\ UNCHANGED <<base_shared, counted_two, started, main, results, processed,
                   nonPi>>

\* ensure: if (new_need <= sieved_to) return;   (read without the lock)
EnsureCheck(t) ==
    /\ th[t].pc = "ensure"
    /\ th' = [th EXCEPT ![t].pc =
                 IF EnsureGuard(th[t].need, base_shared.sieved_to)
                 THEN "seed" ELSE "lock"]
    /\ UNCHANGED <<base_shared, alloc, counted_two, started, main, results,
                   issued, processed, nonPi>>

\* mutant of Unlock: the mutex stays held when ensure returns
UnlockKept(m) == m

\* ~lock_guard at either return of ensure: the mutex is free again
Unlock(m) == 0

\* ensure: lock_guard<mutex> lk(mtx);
EnsureLock(t) ==
    /\ th[t].pc = "lock"
    /\ base_shared.mtx = 0
    /\ base_shared' = [base_shared EXCEPT !.mtx = t]
    /\ th' = [th EXCEPT ![t].pc = "recheck"]
    /\ UNCHANGED <<alloc, counted_two, started, main, results, issued,
                   processed, nonPi>>

\* ensure, inside the lock: the re-check; then target, the mark array and
\* primes.clear()
EnsureRecheck(t) ==
    /\ th[t].pc = "recheck"
    /\ IF EnsureGuard(th[t].need, base_shared.sieved_to)
       THEN /\ base_shared' = [base_shared EXCEPT !.mtx = Unlock(@)]
            /\ th' = [th EXCEPT ![t].pc = "seed"]
       ELSE LET target == EnsureTarget(th[t].need, base_shared.sieved_to) IN
            /\ base_shared' = [base_shared EXCEPT !.primes = <<>>]
            /\ th' = [th EXCEPT ![t].pc = "push", ![t].target = target,
                          ![t].pending = SimpleSieve(target, base_shared.primes)]
    /\ UNCHANGED <<alloc, counted_two, started, main, results, issued,
                   processed, nonPi>>

\* ensure: primes.push_back(i) for the next marked i
EnsurePush(t) ==
    /\ th[t].pc = "push"
    /\ th[t].pending # <<>>
    /\ base_shared' = [base_shared EXCEPT
                          !.primes = Append(base_shared.primes, Head(th[t].pending))]
    /\ th' = [th EXCEPT ![t].pending = Tail(th[t].pending)]
    /\ UNCHANGED <<alloc, counted_two, started, main, results, issued,
                   processed, nonPi>>

\* ensure: sieved_to = target; and the lock_guard releases the mutex
EnsureStore(t) ==
    /\ th[t].pc = "push"
    /\ th[t].pending = <<>>
    /\ base_shared' = [base_shared EXCEPT !.sieved_to = th[t].target, !.mtx = Unlock(@)]
    /\ th' = [th EXCEPT ![t].pc = "seed"]
    /\ UNCHANGED <<alloc, counted_two, started, main, results, issued,
                   processed, nonPi>>

\* history: the largest value every index of next_mult has held so far
HighWater(hw, nm) ==
    [i \in 1..Max(Len(hw), Len(nm)) |->
        Max(IF i <= Len(hw) THEN hw[i] ELSE 0, IF i <= Len(nm) THEN nm[i] ELSE 0)]

\* "Initialize next_mult for new primes": reads the shared primes, no lock
Seed(t) ==
    /\ th[t].pc = "seed"
    /\ \E nm \in {SeedCursors(th[t].next_mult, base_shared.primes,
                                LoOdd(th[t].lo))} :
          th' = [th EXCEPT ![t].pc = "strike",
                           ![t].next_mult = nm,
                           ![t].hw_mult = HighWater(th[t].hw_mult, nm)]
    /\ UNCHANGED <<base_shared, alloc, counted_two, started, main, results,
                   issued, processed, nonPi>>

\* memset, the strike loop over the shared primes (no lock), the count, the
\* metrics and the largest prime of the segment (lines 587-655)
Strike(t) ==
    /\ th[t].pc = "strike"
    /\ \E g \in Garbage(LoOdd(th[t].lo)) :
          \E r \in {StrikeAll(FullFlags, th[t].next_mult, base_shared.primes,
                               StartIdx(base_shared.primes), LoOdd(th[t].lo), g)} :
          LET w == th[t]
              lo_odd == LoOdd(w.lo)
              ps == base_shared.primes
          IN th' = [th EXCEPT ![t] =
                       [w EXCEPT !.pc = "seg_dl",
                                 !.flags = r.flags,
                                 !.next_mult = r.next_mult,
                                 !.hw_mult = HighWater(w.hw_mult, r.next_mult),
                                 !.used = ps,
                                 !.local_count = w.local_count + PopcountArray(r.flags),
                                 !.sieved_count = w.sieved_count + PopcountArray(r.flags),
                                 !.max_survivor =
                                     Max(w.max_survivor,
                                         Largest(Survivors(r.flags, lo_odd))),
                                 !.local_segments = w.local_segments + 1,
                                 !.late_segs =
                                     w.late_segs + (IF w.expired THEN 1 ELSE 0),
                                 !.local_max_hi = Max(w.local_max_hi, w.hi),
                                 !.local_largest =
                                     SegLargest(r.flags, lo_odd, w.local_largest)]]
    /\ processed' = [processed EXCEPT ![(th[t].lo - 3) \div SEG_SPAN] = @ + 1]
    /\ UNCHANGED <<base_shared, alloc, counted_two, started, main, results,
                   issued, nonPi>>

\* if (clock::now() >= deadline) break;  else ++seg and the for loop's test
SegDeadline(t) ==
    /\ th[t].pc = "seg_dl"
    /\ th' = [th EXCEPT ![t] =
                 IF DeadlinePassed(th[t]) THEN [th[t] EXCEPT !.pc = "chunk_dl"]
                 ELSE EnterSeg(th[t], th[t].seg + 1)]
    /\ UNCHANGED <<base_shared, alloc, counted_two, started, main, results,
                   issued, processed, nonPi>>

\* after the for loop: if (clock::now() >= deadline) break;
ChunkDeadline(t) ==
    /\ th[t].pc = "chunk_dl"
    /\ th' = [th EXCEPT ![t].pc = IF DeadlinePassed(th[t]) THEN "out" ELSE "loop"]
    /\ UNCHANGED <<base_shared, alloc, counted_two, started, main, results,
                   issued, processed, nonPi>>

\* out->primes_count = local_count; ... (lines 664-668), and the thread ends
Publish(t) ==
    /\ th[t].pc = "out"
    /\ results' = [results EXCEPT ![t] =
                      [primes_count |-> th[t].local_count,
                       largest_prime |-> th[t].local_largest,
                       segments_processed |-> th[t].local_segments,
                       max_hi_processed |-> th[t].local_max_hi]]
    /\ th' = [th EXCEPT ![t].pc = "finished"]
    /\ UNCHANGED <<base_shared, alloc, counted_two, started, main, issued,
                   processed, nonPi>>

Worker(t) ==
    \/ WorkerStart(t)
    \/ Expire(t)
    \/ LoopTest(t)
    \/ GetChunk(t)
    \/ EnsureCheck(t)
    \/ EnsureLock(t)
    \/ EnsureRecheck(t)
    \/ EnsurePush(t)
    \/ EnsureStore(t)
    \/ Seed(t)
    \/ Strike(t)
    \/ SegDeadline(t)
    \/ ChunkDeadline(t)
    \/ Publish(t)

Next ==
    \/ MainStart
    \/ Spawn
    \/ Join
    \/ Reduce
    \/ \E t \in Threads : Worker(t)

Spec == Init /\ [][Next]_vars

\* fair scheduling: main and every spawned thread keep running, every
\* thread's deadline eventually passes
Fairness ==
    WF_vars(Next)

SpecFair == Init /\ [][Next]_vars /\ Fairness

(* -------- BasePrimes::ensure / extend_base_primes, call by call -------- *)
\* base_shared.ensure(n)
CallEnsure(n) ==
    /\ base_shared' = EnsureCall(base_shared, n)
    /\ call' = [op |-> "ensure", arg |-> n]
    /\ UNCHANGED <<piVars, base, base_sieved_to, mcVars, prog, rf, ar, cfg, sk, sg, wq, gen, gs>>

\* extend_base_primes(n, base, base_sieved_to)
CallExtend(n) ==
    /\ base' = ExtendBasePrimes(n, base, base_sieved_to).base
    /\ base_sieved_to' = ExtendBasePrimes(n, base, base_sieved_to).sieved_to
    /\ call' = [op |-> "extend", arg |-> n]
    /\ UNCHANGED <<piVars, base_shared, mcVars, prog, rf, ar, cfg, sk, sg, wq, gen, gs>>

NextBase ==
    \/ \E n \in 0..MaxNeed : CallEnsure(n)
    \/ \E n \in 0..MaxNeed : CallExtend(n)

InitBase == InitCommon /\ prog = "pi"

SpecBase == InitBase /\ [][NextBase]_vars

(* ----------------- optimized_multi_core.cpp: actions ------------------- *)
piAll == <<base_shared, piVars, base, base_sieved_to, call, prog, rf, ar, cfg, sk, sg, wq, gen, gs>>

\* workers.emplace_back(worker_thread, ...)
MCSpawn ==
    /\ mcmain.pc \in {"idle", "running"}
    /\ mcmain.spawned < NUM_THREADS
    /\ mc' = [mc EXCEPT ![mcmain.spawned + 1].pc = "loop"]
    /\ mcmain' = [mcmain EXCEPT !.spawned = mcmain.spawned + 1,
                                !.pc = IF mcmain.spawned + 1 = NUM_THREADS
                                       THEN "draining" ELSE "running"]
    /\ UNCHANGED <<mcs, piAll>>

\* the steady clock passes the deadline all workers share
MCExpire ==
    /\ ~mcs.expired
    /\ mcs' = [mcs EXCEPT !.expired = TRUE]
    /\ UNCHANGED <<mc, mcmain, piAll>>

\* while (now() < deadline); after the loop total_prime_count.fetch_add(...)
MCLoopTest(t) ==
    /\ mc[t].pc = "loop"
    /\ IF mcs.expired
       THEN /\ mcs' = [mcs EXCEPT !.total_prime_count =
                                      @ + mc[t].thread_prime_count]
            /\ mc' = [mc EXCEPT ![t].pc = "finished"]
       ELSE /\ mc' = [mc EXCEPT ![t].pc = "claim"]
            /\ UNCHANGED mcs
    /\ UNCHANGED <<mcmain, piAll>>

\* low = global_low.fetch_add(SEG_SIZE); high; need; if (need > local_base_limit)
MCClaim(t) ==
    /\ mc[t].pc = "claim"
    /\ mcs.global_low < 2 + MaxSegs * SEG_SIZE
    /\ mcs' = [mcs EXCEPT !.global_low = @ + SEG_SIZE]
    /\ mc' = [mc EXCEPT ![t].low = mcs.global_low,
                        ![t].high = mcs.global_low + SEG_SIZE,
                        ![t].need = MCNeed(mcs.global_low + SEG_SIZE),
                        ![t].pc = IF MCNeed(mcs.global_low + SEG_SIZE)
                                       > mc[t].local_base_limit
                                  THEN "check" ELSE "sieve"]
    /\ UNCHANGED <<mcmain, piAll>>

\* if (need > shared_base_limit.load())
MCCheck(t) ==
    /\ mc[t].pc = "check"
    /\ mc' = [mc EXCEPT ![t].pc = IF NeedsExtend(mc[t].need, mcs.shared_base_limit)
                                  THEN "lock_extend" ELSE "lock_copy"]
    /\ UNCHANGED <<mcs, mcmain, piAll>>

\* std::lock_guard<std::mutex> lock(base_primes_mutex);   (line 100)
MCLockExtend(t) ==
    /\ mc[t].pc = "lock_extend"
    /\ mcs.base_primes_mutex = 0
    /\ mcs' = [mcs EXCEPT !.base_primes_mutex = t]
    /\ mc' = [mc EXCEPT ![t].pc = "recheck"]
    /\ UNCHANGED <<mcmain, piAll>>

\* if (need > shared_base_limit.load()) inside the lock; else the lock ends
MCRecheck(t) ==
    /\ mc[t].pc = "recheck"
    /\ IF NeedsExtend(mc[t].need, mcs.shared_base_limit)
       THEN /\ mc' = [mc EXCEPT ![t].pc = "rebuild"]
            /\ UNCHANGED mcs
       ELSE /\ mc' = [mc EXCEPT ![t].pc = "lock_copy"]
            /\ mcs' = [mcs EXCEPT !.base_primes_mutex = 0]
    /\ UNCHANGED <<mcmain, piAll>>

\* shared_base_primes = small_primes(need); shared_base_limit.store(need);
MCRebuild(t) ==
    /\ mc[t].pc = "rebuild"
    /\ mcs' = [mcs EXCEPT !.shared_base_primes = SmallPrimes(mc[t].need),
                          !.shared_base_limit = mc[t].need,
                          !.base_primes_mutex = 0]
    /\ mc' = [mc EXCEPT ![t].pc = "lock_copy"]
    /\ UNCHANGED <<mcmain, piAll>>

\* std::lock_guard<std::mutex> lock(base_primes_mutex);   (line 109)
MCLockCopy(t) ==
    /\ mc[t].pc = "lock_copy"
    /\ mcs.base_primes_mutex = 0
    /\ mcs' = [mcs EXCEPT !.base_primes_mutex = t]
    /\ mc' = [mc EXCEPT ![t].pc = "copy"]
    /\ UNCHANGED <<mcmain, piAll>>

\* local_base_primes = shared_base_primes; local_base_limit = shared_base_limit
MCCopy(t) ==
    /\ mc[t].pc = "copy"
    /\ mc' = [mc EXCEPT ![t].local_base_primes = mcs.shared_base_primes,
                        ![t].local_base_limit = mcs.shared_base_limit,
                        ![t].pc = "sieve"]
    /\ mcs' = [mcs EXCEPT !.base_primes_mutex = 0]
    /\ UNCHANGED <<mcmain, piAll>>

\* fill, sieve, special cases, count, thread_prime_count += segment_primes
MCSieve(t) ==
    /\ mc[t].pc = "sieve"
    /\ LET bits == MCSieveSegment(mc[t].local_base_primes, mc[t].low, mc[t].high)
       IN mc' = [mc EXCEPT ![t].is_prime_bits = bits,
                           ![t].thread_prime_count =
                               @ + MCCount(bits, mc[t].low, mc[t].high),
                           ![t].counted_lows = Append(@, mc[t].low),
                           ![t].pc = "loop"]
    /\ UNCHANGED <<mcs, mcmain, piAll>>

\* worker.join()
MCJoin ==
    /\ mcmain.pc = "draining"
    /\ mcmain.joined < NUM_THREADS
    /\ mc[mcmain.joined + 1].pc = "finished"
    /\ mcmain' = [mcmain EXCEPT !.joined = mcmain.joined + 1]
    /\ UNCHANGED <<mcs, mc, piAll>>

\* u64 final_range = global_low.load(); and the report
MCReport ==
    /\ mcmain.pc = "draining"
    /\ mcmain.joined = NUM_THREADS
    /\ mcmain' = [mcmain EXCEPT !.pc = "done", !.final_range = mcs.global_low]
    /\ UNCHANGED <<mcs, mc, piAll>>

MCWorker(t) ==
    \/ MCLoopTest(t)
    \/ MCClaim(t)
    \/ MCCheck(t)
    \/ MCLockExtend(t)
    \/ MCRecheck(t)
    \/ MCRebuild(t)
    \/ MCLockCopy(t)
    \/ MCCopy(t)
    \/ MCSieve(t)

NextMC ==
    \/ MCSpawn
    \/ MCExpire
    \/ MCJoin
    \/ MCReport
    \/ \E t \in MCThreads : MCWorker(t)

InitMC == InitCommon /\ prog = "mc"

SpecMC == InitMC /\ [][NextMC]_vars

\* either multi-threaded program is run
NextLock ==
    \/ prog = "pi" /\ Next
    \/ prog = "mc" /\ NextMC

InitLock == InitCommon /\ prog \in {"pi", "mc"}

SpecLock == InitLock /\ [][NextLock]_vars

(* ------------- optimized_segmented_sieve_refactor: actions -------------- *)
nonRf == <<base_shared, piVars, call, mcVars, prog, ar, cfg, sk, sg, wq, gen, gs>>

\* extend_base_primes(100, base, base_sieved_to); lo = 2; t0; deadline
RfStart ==
    /\ rf.pc = "idle"
    /\ base' = ExtendBasePrimes(BOOTSTRAP, base, base_sieved_to).base
    /\ base_sieved_to' = ExtendBasePrimes(BOOTSTRAP, base, base_sieved_to).sieved_to
    /\ rf' = [rf EXCEPT !.pc = "loop"]
    /\ UNCHANGED nonRf

\* the steady clock comes within 2 ms of the deadline, or passes it
RfExpire ==
    /\ rf.pc = "loop"
    /\ ~rf.expired
    /\ rf' = [rf EXCEPT !.expired = TRUE]
    /\ UNCHANGED <<base, base_sieved_to, nonRf>>

\* one pass of while (true): bounds, extend, seed, strike, count, lo = hi,
\* and the two deadline tests (lines 833-912)
RfSegment ==
    /\ rf.pc = "loop"
    /\ rf.segs < RfMaxSegs
    /\ LET lo == rf.lo
           lo_odd == LoOdd(lo)
           hi == lo_odd + RF_SEG_BYTES * 2
           need == Isqrt(hi - 1)
           ext == IF need > base_sieved_to
                  THEN ExtendBasePrimes(need % (U32_MAX + 1), base, base_sieved_to)
                  ELSE [base |-> base, sieved_to |-> base_sieved_to]
           nm == RfSeed(rf.next_mult, ext.base, lo)
           r == RfStrikeAll(0..(RF_SEG_BYTES - 1), nm, nm, ext.base,
                            StartIdx(ext.base), lo, lo_odd, hi)
           two == ~rf.counted_two /\ 2 < hi
           sv == RfSurvivors(r.flags, lo_odd)
       IN /\ base' = ext.base
          /\ base_sieved_to' = ext.sieved_to
          /\ rf' = [rf EXCEPT
                       !.pc = IF rf.expired THEN "done" ELSE "loop",
                       !.lo = hi, !.lo_odd = lo_odd, !.hi = hi, !.need = need,
                       !.next_mult = r.next_mult, !.start_mult = r.start_mult,
                       !.flags = r.flags,
                       !.counted_two = rf.counted_two \/ two,
                       !.twos = rf.twos + (IF two THEN 1 ELSE 0),
                       !.primes_count = rf.primes_count + (IF two THEN 1 ELSE 0)
                                            + Cardinality(sv),
                       !.largest_prime =
                           IF sv # {} THEN CHOOSE v \in sv : \A x \in sv : x <= v
                           ELSE IF two THEN 2 ELSE rf.largest_prime,
                       !.segs = rf.segs + 1]
    /\ UNCHANGED nonRf

NextRf ==
    \/ RfStart
    \/ RfExpire
    \/ RfSegment

InitRf == InitCommon /\ prog = "rf"

SpecRf == InitRf /\ [][NextRf]_vars

\* any of the three programs is run
NextAll ==
    \/ prog = "pi" /\ Next
    \/ prog = "mc" /\ NextMC
    \/ prog = "rf" /\ NextRf

InitAll == InitCommon /\ prog \in {"pi", "mc", "rf"}

SpecAll == InitAll /\ [][NextAll]_vars

(* ------------------- fixed-width arithmetic, per input ------------------ *)
\* everything but ar
nonAr == <<base_shared, piVars, base, base_sieved_to, call, mcVars, prog, rf, cfg, sk, sg, wq, gen, gs>>

\* u32 values near 1, near half the range and near the maximum
WidthInputs ==
    (1..Near) \cup (((U32_MAX + 1) \div 2 - Near)..((U32_MAX + 1) \div 2 + Near))
        \cup ((U32_MAX - Near)..U32_MAX)

\* ensure(new_need) on a table whose sieved_to is st: the sieved_to it leaves
ApplyEnsure ==
    /\ \E new_need \in WidthInputs, st \in WidthInputs :
          ar' = [op |-> "ensure", a |-> new_need, b |-> st,
                 out |-> EnsureSievedTo(new_need, st)]
    /\ UNCHANGED nonAr

\* get_chunk on a counter that holds c: the counter afterwards
ApplyFetchAdd ==
    /\ \E c \in WidthInputs :
          ar' = [op |-> "fetch_add", a |-> c, b |-> 0, out |-> FetchAdd(c)]
    /\ UNCHANGED nonAr

NextWidth ==
    \/ ApplyEnsure
    \/ ApplyFetchAdd

InitWidth == InitCommon /\ prog = "pi"

SpecWidth == InitWidth /\ [][NextWidth]_vars

(* ------------------ one strike loop, applied on its own ---------------- *)
\* everything but sk
nonSk == <<base_shared, piVars, base, base_sieved_to, call, mcVars, prog, rf, ar,
           cfg, sg, wq, gen, gs>>

StrikeFlags == 0..(STRIKE_BITS - 1)

\* the odd multiples of p in a..b
OddMultiples(p, a, b) == {m \in a..b : m % p = 0 /\ m % 2 = 1}

\* the inputs of one strike loop: an odd base prime, a segment that starts
\* at lo_odd, a cursor that is an odd multiple of p between one segment
\* behind lo_odd and the first one at or after hi, and the flags so far
StrikeInputs ==
    {[p |-> p, lo_odd |-> lo_odd, j0 |-> j0, before |-> before] :
        p \in {q \in 3..MaxStrikePrime : \A d \in 2..(q - 1) : q % d # 0},
        lo_odd \in {3 + k * 2 * STRIKE_BITS : k \in 0..(StrikeSegs - 1)},
        j0 \in 1..(3 + StrikeSegs * 2 * STRIKE_BITS + 2 * MaxStrikePrime),
        before \in {StrikeFlags, {i \in StrikeFlags : i % 3 # 0}}}

\* the inputs whose cursor fits their prime and segment
ValidStrikeInputs ==
    {x \in StrikeInputs :
        /\ x.j0 % x.p = 0 /\ x.j0 % 2 = 1
        /\ x.j0 + 2 * STRIKE_BITS >= x.lo_odd
        /\ OddMultiples(x.p, x.lo_odd + 2 * STRIKE_BITS, x.j0 - 1) = {}}

\* mutant of WrapIdx: the halving of the distance is missing
WrapIdxNoShift(j, lo_odd) == (j - lo_odd) % (U32_MAX + 1)

\* u64 idx = (j - lo_odd) >> 1: unsigned, so a j below lo_odd wraps to a
\* huge index
WrapIdx(j, lo_odd) == ((j - lo_odd) % (U32_MAX + 1)) \div 2

\* if (idx < SEG_BITS) clear_bit(flags.data(), idx): the write made for j,
\* as the value and the index it lands on
GuardedWrite(j, lo_odd, seg_bits) ==
    IF WrapIdx(j, lo_odd) < seg_bits
    THEN {[j |-> j, idx |-> WrapIdx(j, lo_odd)]}
    ELSE {}

\* the writes of the loop unrolled by 4
RECURSIVE UnrolledWrites(_, _, _, _, _)
UnrolledWrites(j, step, lo_odd, end, seg_bits) ==
    IF j + 3 * step < end
    THEN UNION {GuardedWrite(j + k * step, lo_odd, seg_bits) : k \in 0..3}
             \cup UnrolledWrites(j + 4 * step, step, lo_odd, end, seg_bits)
    ELSE {}

\* the writes of the remainder loop
RECURSIVE RemainderWrites(_, _, _, _, _)
RemainderWrites(j, step, lo_odd, end, seg_bits) ==
    IF j < end
    THEN GuardedWrite(j, lo_odd, seg_bits)
             \cup RemainderWrites(j + step, step, lo_odd, end, seg_bits)
    ELSE {}

\* worker, lines 600-632: every clear_bit the strike of p makes when its
\* cursor reads j0
PiWritten(j0, p, lo_odd, seg_bits) ==
    LET step == (p * 2) % (U32_MAX + 1)
        j == Revalidate(j0, p, lo_odd)
        end == lo_odd + 2 * seg_bits
    IN UnrolledWrites(j, step, lo_odd, end, seg_bits)
           \cup RemainderWrites(Unrolled({}, j, step, lo_odd, end, seg_bits).j,
                                step, lo_odd, end, seg_bits)

\* the refactor variant, lines 880-883: flags[(size_t)idx] = 0 for every j
\* the loop visits, with no test of idx
RECURSIVE RfWritten(_, _, _, _)
RfWritten(j, step, lo_odd, hi) ==
    IF j < hi
    THEN {[j |-> j, idx |-> WrapIdx(j, lo_odd)]}
             \cup RfWritten(j + step, step, lo_odd, hi)
    ELSE {}

\* worker, lines 597-634, for one base prime
StrikePi ==
    /\ \E x \in ValidStrikeInputs :
          \E r \in {StrikePrime(x.before, x.j0, x.p, x.lo_odd, STRIKE_BITS)} :
             sk' = [op |-> "pi", p |-> x.p, lo |-> x.lo_odd, lo_odd |-> x.lo_odd,
                    hi |-> x.lo_odd + 2 * STRIKE_BITS, j0 |-> x.j0,
                    before |-> x.before, flags |-> r.flags, j |-> r.j,
                    other |-> {},
                    written |-> PiWritten(x.j0, x.p, x.lo_odd, STRIKE_BITS)]
    /\ UNCHANGED nonSk

\* main of the refactor variant, lines 863-885, for one base prime; the first
\* segment has lo = 2
StrikeRf ==
    /\ \E x \in ValidStrikeInputs :
          LET lo == IF x.lo_odd = 3 THEN 2 ELSE x.lo_odd
              hi == x.lo_odd + 2 * STRIKE_BITS
          IN \E r \in {RfStrikeFrom(x.before, RfFastForward(x.j0, lo, x.p * 2),
                                     x.p * 2, x.lo_odd, hi)} :
                sk' = [op |-> "rf", p |-> x.p, lo |-> lo, lo_odd |-> x.lo_odd,
                       hi |-> hi, j0 |-> x.j0, before |-> x.before,
                       flags |-> r.flags, j |-> r.j, other |-> {},
                       written |-> RfWritten(RfFastForward(x.j0, lo, x.p * 2),
                                             x.p * 2, x.lo_odd, hi)]
    /\ UNCHANGED nonSk

\* the inputs seeded for their segment: the cursor is the one the seeding
\* computes for lo_odd
SeededStrikeInputs ==
    {x \in ValidStrikeInputs : x.j0 = FirstOddMultiple(x.lo_odd, x.p)}

\* worker: a segment struck from its seed, then the next segment struck once
\* from the cursor the first left (flags) and once from the cursor computed
\* by division for the second segment's lo_odd (other)
CarryPi ==
    /\ \E x \in SeededStrikeInputs :
          LET lo2 == x.lo_odd + 2 * STRIKE_BITS IN
          \E r1 \in {StrikePrime(StrikeFlags, x.j0, x.p, x.lo_odd, STRIKE_BITS)} :
          \E r2 \in {StrikePrime(x.before, r1.j, x.p, lo2, STRIKE_BITS)} :
          \E r3 \in {StrikePrime(x.before, FirstOddMultiple(lo2, x.p), x.p, lo2,
                                  STRIKE_BITS)} :
             sk' = [op |-> "carry_pi", p |-> x.p, lo |-> lo2, lo_odd |-> lo2,
                    hi |-> lo2 + 2 * STRIKE_BITS, j0 |-> r1.j,
                    before |-> x.before, flags |-> r2.flags, j |-> r2.j,
                    other |-> r3.flags, written |-> {}]
    /\ UNCHANGED nonSk

\* the same for the refactor variant, with first_odd_multiple_ge
CarryRf ==
    /\ \E x \in SeededStrikeInputs :
          LET lo1 == IF x.lo_odd = 3 THEN 2 ELSE x.lo_odd
              lo2 == x.lo_odd + 2 * STRIKE_BITS
              hi2 == lo2 + 2 * STRIKE_BITS
              step == x.p * 2
          IN
          \E r1 \in {RfStrikeFrom(StrikeFlags, FirstOddMultipleGe(lo1, x.p), step,
                                   x.lo_odd, lo2)} :
          \E r2 \in {RfStrikeFrom(x.before, RfFastForward(r1.j, lo2, step), step,
                                   lo2, hi2)} :
          \E r3 \in {RfStrikeFrom(x.before, FirstOddMultipleGe(lo2, x.p), step,
                                   lo2, hi2)} :
             sk' = [op |-> "carry_rf", p |-> x.p, lo |-> lo2, lo_odd |-> lo2,
                    hi |-> hi2, j0 |-> r1.j, before |-> x.before,
                    flags |-> r2.flags, j |-> r2.j, other |-> r3.flags,
                    written |-> {}]
    /\ UNCHANGED nonSk

\* the inputs whose cursor is any value from just behind the second segment
\* to just beyond it
AnyCursorInputs ==
    {x \in StrikeInputs :
        /\ x.before = StrikeFlags
        /\ x.lo_odd = 3 + 2 * STRIKE_BITS
        /\ x.j0 >= x.lo_odd - 4
        /\ x.j0 <= x.lo_odd + 2 * STRIKE_BITS + 2}

\* worker, lines 597-634, with a cursor that need not fit p: what the read
\* of next_mult[bi] past next_mult.size() can give
StrikeAnyCursor ==
    /\ \E x \in AnyCursorInputs :
          \E r \in {StrikePrime(x.before, x.j0, x.p, x.lo_odd, STRIKE_BITS)} :
             sk' = [op |-> "any", p |-> x.p, lo |-> x.lo_odd, lo_odd |-> x.lo_odd,
                    hi |-> x.lo_odd + 2 * STRIKE_BITS, j0 |-> x.j0,
                    before |-> x.before, flags |-> r.flags, j |-> r.j,
                    other |-> {},
                    written |-> PiWritten(x.j0, x.p, x.lo_odd, STRIKE_BITS)]
    /\ UNCHANGED nonSk

NextStrike ==
    \/ StrikePi
    \/ StrikeAnyCursor
    \/ StrikeRf
    \/ CarryPi
    \/ CarryRf

InitStrike == InitCommon /\ prog = "pi"

SpecStrike == InitStrike /\ [][NextStrike]_vars

(* ------------- optimized_multi_core_pi: main's arguments --------------- *)
\* everything but cfg
nonCfg == <<base_shared, piVars, base, base_sieved_to, call, mcVars, prog, rf, ar,
            sk, sg, wq, gen, gs>>

\* unsigned threads = 3; if (hw_threads > 0 && hw_threads < 3) threads = hw_threads;
DefaultThreads(hw_threads) ==
    IF hw_threads > 0 /\ hw_threads < 3 THEN hw_threads ELSE 3

\* if (argc >= 3) { int t = atoi(argv[2]); if (t > 0) threads = (unsigned)t; }
ThreadsFromArgs(argc, t, hw_threads) ==
    IF argc >= 3 /\ t > 0 THEN t ELSE DefaultThreads(hw_threads)

\* main up to the spawn loop: argc, atoi(argv[2]) and
\* hardware_concurrency() are the inputs; there is no return on this path
ParseArgs ==
    /\ cfg.pc = "args"
    /\ \E argc \in 1..3, t \in (-1)..MaxArg, hw_threads \in 0..MaxHw :
          cfg' = [pc |-> "spawn", argc |-> argc,
                  t |-> IF argc >= 3 THEN t ELSE 0, hw_threads |-> hw_threads,
                  threads |-> ThreadsFromArgs(argc, t, hw_threads),
                  spawned |-> 0]
    /\ UNCHANGED nonCfg

\* for (unsigned i = 0; i < threads; ++i) pool.emplace_back(worker, ...)
SpawnWorker ==
    /\ cfg.pc = "spawn"
    /\ cfg.spawned < cfg.threads
    /\ cfg' = [cfg EXCEPT !.spawned = cfg.spawned + 1]
    /\ UNCHANGED nonCfg

\* the spawn loop ends and the join loop begins
SpawnDone ==
    /\ cfg.pc = "spawn"
    /\ cfg.spawned = cfg.threads
    /\ cfg' = [cfg EXCEPT !.pc = "join"]
    /\ UNCHANGED nonCfg

NextConfig ==
    \/ ParseArgs
    \/ SpawnWorker
    \/ SpawnDone

InitConfig == InitCommon /\ prog = "pi"

SpecConfig == InitConfig /\ [][NextConfig]_vars

(* ------------- one segment through each variant's sieve routine --------- *)
nonSg == <<base_shared, piVars, base, base_sieved_to, call, mcVars, prog, rf, ar,
           cfg, sk, wq, gen, gs>>

\* u64 word width of the bit arrays
WORD_BITS == 64

\* primes_quad_core.cpp, if (p == 2): word 0 is masked from start_bit's
\* parity, every later word with 0x5555555555555555
QCStrikeTwo(bits, low, seg_size) ==
    bits \ {i \in 0..(seg_size - 1) :
               i % 2 = (IF i \div WORD_BITS = 0 THEN low % 2 ELSE 0)}

\* while (j + (n-1)*p < SEG_SIZE) { clear j, j+p, ..., j+(n-1)p }
RECURSIVE QCUnrolled(_, _, _, _, _)
QCUnrolled(bits, j, p, n, seg_size) ==
    IF j + (n - 1) * p < seg_size
    THEN QCUnrolled(bits \ {j + k * p : k \in 0..(n - 1)}, j + n * p, p, n, seg_size)
    ELSE [bits |-> bits, j |-> j]

\* while (j < SEG_SIZE) { clear j; j += p; }
RECURSIVE QCRemainder(_, _, _, _)
QCRemainder(bits, j, p, seg_size) ==
    IF j < seg_size THEN QCRemainder(bits \ {j}, j + p, p, seg_size) ELSE bits

\* sieve_segment lines 89-144 for one base prime p
QCStrikePrime(bits, p, low, high) ==
    LET first == ((low + p - 1) \div p) * p
        start == IF first < p * p THEN p * p ELSE first
        j == start - low
        seg_size == high - low
    IN IF start >= high THEN bits
       ELSE IF p = 2 THEN QCStrikeTwo(bits, low, seg_size)
       ELSE IF p < 32
            THEN LET r == QCUnrolled(bits, j, p, 16, seg_size)
                 IN QCRemainder(r.bits, r.j, p, seg_size)
       ELSE IF p < 256
            THEN LET r == QCUnrolled(bits, j, p, 4, seg_size)
                 IN QCRemainder(r.bits, r.j, p, seg_size)
       ELSE QCRemainder(bits, j, p, seg_size)

\* for (u32 p : base_primes) ...
RECURSIVE QCStrikeAll(_, _, _, _, _)
QCStrikeAll(bits, ps, k, low, high) ==
    IF k > Len(ps) THEN bits
    ELSE QCStrikeAll(QCStrikePrime(bits, ps[k], low, high), ps, k + 1, low, high)

\* "Handle special cases": clear 0 and 1 when the segment holds them
QCSpecialCases(bits, low, high) ==
    IF low <= 1
    THEN (IF low = 0 THEN bits \ {0} ELSE bits)
             \ (IF high > 1 THEN {1 - low} ELSE {})
    ELSE bits

\* u64 sieve_segment(low, high, base_primes): the bits left set
QCSieveSegment(ps, low, high) ==
    QCSpecialCases(QCStrikeAll(0..(high - low - 1), ps, 1, low, high), low, high)

\* base_limit = (u32)sqrt(MAX_EXPECTED_RANGE) + 1
QCBaseLimit == Isqrt(QcMaxRange) + 1

\* the single-threaded sieve's loop body: the text of worker_thread's
STSieveSegment(ps, low, high) ==
    MCSpecialCases(MCStrikeAll(MCFullBits, ps, 1, low, high), low, high)

\* mutant of GsClearLow: 0 and 1 keep their flags
GsClearNone(is_prime, low, range) == is_prime

\* if (low <= 1) for (i = 0; i < min(2, range); ++i) is_prime[i] = false;
GsClearLow(is_prime, low, range) ==
    IF low <= 1 THEN is_prime \ (0..(Min(2, range) - 1)) ELSE is_prime

\* for (T prime : base_primes) { if (prime*prime > high) break; strike }
RECURSIVE GsMark(_, _, _, _, _)
GsMark(is_prime, ps, k, low, high) ==
    IF k > Len(ps) THEN is_prime
    ELSE IF ps[k] * ps[k] > high THEN is_prime
    ELSE LET prime == ps[k]
             start == Max(prime * prime, ((low + prime - 1) \div prime) * prime)
         IN GsMark(is_prime \ {j - low : j \in {x \in start..high :
                                                    (x - start) % prime = 0}},
                   ps, k + 1, low, high)

\* SegmentedSieve::sieve_segment up to the collecting loop: the flags set
GsFlags(ps, low, high) ==
    GsMark(GsClearLow(0..(high - low), low, high - low + 1), ps, 1, low, high)

\* "Collect primes from this segment": candidate = low + i, kept if >= 2
GsCollect(is_prime, low) == {c \in {low + i : i \in is_prime} : c >= 2}

\* SegmentedSieve::generate_base_primes(limit)
GenerateBasePrimes(limit) ==
    LET sqrt_limit == Isqrt(limit) + 1
    IN Collect(SmallMark((0..sqrt_limit) \ {0, 1}, 2, sqrt_limit), 2, sqrt_limit)

\* "Regenerate base primes if needed": if (!base_primes.empty() &&
\* base_primes.back() < sqrt_high) generate_base_primes(current_high)
GsRegenerate(base_primes, current_high) ==
    IF base_primes # <<>> /\ base_primes[Len(base_primes)] < Isqrt(current_high) + 1
    THEN GenerateBasePrimes(current_high)
    ELSE base_primes

\* the values a bit array over [low, low + n) counts
Counted(bits, low, n) == {low + i : i \in {b \in bits : b < n}}

\* optimized_multi_core.cpp: worker_thread sieves the segment it claimed
SieveMC ==
    \E k \in 0..(SieveSegs - 1) :
        LET low == 2 + k * SEG_SIZE
            high == low + SEG_SIZE
            ps == SmallPrimes(MCNeed(high))
        IN \E bits \in {MCSieveSegment(ps, low, high)} :
              sg' = [variant |-> "mc", low |-> low, high |-> high, ps |-> ps,
                     bits |-> bits,
                     counted |-> Counted(bits, low, Min(SEG_SIZE, high - low))]

\* the single-threaded sieve: one turn of main's loop
SieveST ==
    \E k \in 0..(SieveSegs - 1) :
        LET low == 2 + k * SEG_SIZE
            high == low + SEG_SIZE
            ps == SmallPrimes(MCNeed(high))
        IN \E bits \in {STSieveSegment(ps, low, high)} :
              sg' = [variant |-> "st", low |-> low, high |-> high, ps |-> ps,
                     bits |-> bits,
                     counted |-> Counted(bits, low, Min(SEG_SIZE, high - low))]

\* primes_quad_core.cpp: worker_thread hands a queued segment to sieve_segment
SieveQC ==
    \E k \in 0..(SieveSegs - 1) :
        LET low == 2 + k * SEG_SIZE
            high == low + SEG_SIZE
            ps == SmallPrimes(QCBaseLimit)
        IN \E bits \in {QCSieveSegment(ps, low, high)} :
              sg' = [variant |-> "qc", low |-> low, high |-> high, ps |-> ps,
                     bits |-> bits,
                     counted |-> Counted(bits, low, high - low)]

\* generic_segmented_sieve.cpp: find_largest_prime_up_to sieves
\* [current_low, min(current_low + segment_size - 1, limit)]
SieveGS ==
    \E size \in 1..GsMaxSize, k \in 0..(GsSegs - 1) :
        \E high \in (k * size)..(k * size + size - 1) :
            LET low == k * size
                ps == GsRegenerate(GenerateBasePrimes(GsBaseLimit), high)
            IN \E is_prime \in {GsFlags(ps, low, high)} :
                  sg' = [variant |-> "gs", low |-> low, high |-> high, ps |-> ps,
                         bits |-> is_prime, counted |-> GsCollect(is_prime, low)]

\* optimized_multi_core_pi: a worker sieves segment seg of chunk id with
\* cursors seeded for it; counted holds what the popcount of flags counts
\* (the prime 2 is added apart, by the counted_two test)
SievePi ==
    \E id \in 0..(MaxChunks - 1), seg \in 0..(CHUNK_SEGS - 1) :
        LET lo == SegLo(ChunkLo(id), seg)
            lo_odd == LoOdd(lo)
            hi == SegHi(lo)
            ps == EnsureCall(NewBasePrimes, SegNeed(hi)).primes
            nm == SeedCursors(<<>>, ps, lo_odd)
        IN \E r \in {StrikeAll(FullFlags, nm, ps, StartIdx(ps), lo_odd, 0)} :
              sg' = [variant |-> "pi", low |-> lo, high |-> hi, ps |-> ps,
                     bits |-> r.flags,
                     counted |-> Survivors(r.flags, lo_odd)]

\* the refactor variant: one turn of main's loop from lo; counted holds what
\* the scan of flags counts (the prime 2 is added apart)
SieveRf ==
    \E k \in 0..(RfMaxSegs - 1) :
        LET lo == IF k = 0 THEN 2 ELSE 3 + k * RF_SEG_BYTES * 2
            lo_odd == LoOdd(lo)
            hi == lo_odd + RF_SEG_BYTES * 2
            b == ExtendBasePrimes(Isqrt(hi - 1), <<>>, 1).base
            nm == RfSeed(<<>>, b, lo)
        IN \E r \in {RfStrikeAll(0..(RF_SEG_BYTES - 1), nm, nm, b, StartIdx(b),
                                 lo, lo_odd, hi)} :
              sg' = [variant |-> "rf", low |-> lo, high |-> hi, ps |-> b,
                     bits |-> r.flags,
                     counted |-> RfSurvivors(r.flags, lo_odd)]

NextSieve ==
    \/ SieveMC /\ UNCHANGED nonSg
    \/ SieveST /\ UNCHANGED nonSg
    \/ SieveQC /\ UNCHANGED nonSg
    \/ SieveGS /\ UNCHANGED nonSg
    \/ SievePi /\ UNCHANGED nonSg
    \/ SieveRf /\ UNCHANGED nonSg

InitSieve == InitCommon /\ prog = "mc"

SpecSieve == InitSieve /\ [][NextSieve]_vars

(* ---------------- primes_quad_core.cpp: the queue-based driver ---------- *)
nonWq == <<base_shared, piVars, base, base_sieved_to, call, mcVars, prog, rf, ar,
           cfg, sk, sg, gen, gs>>

\* the mutex holder that stands for main
QCMain == QC_NUM_THREADS + 1

\* mutant of QueuePop: the front stays in the queue
QueuePopNone(q) == q

\* segments.pop()
QueuePop(q) == Tail(q)

\* mutant of NotifyAll: nobody is woken
NotifyAllNone(waiting) == {}

\* cv.notify_all(): every thread blocked in cv.wait is woken
NotifyAll(waiting) == waiting

\* cv.notify_one(): one of the threads blocked in cv.wait, if there is one
NotifyOne(waiting) == IF waiting = {} THEN {{}} ELSE {{t} : t \in waiting}

\* the wait predicate: !segments.empty() || finished
WaitPredicate(q, finished) == q # <<>> \/ finished

\* mutant of BelowCap: the producer never looks at the queue size
BelowCapAlways(size) == TRUE

\* work_queue.queue_size() < NUM_THREADS * 3
BelowCap(size) == size < QC_NUM_THREADS * 3

\* auto base_primes = small_primes(base_limit)
QCBasePrimes == SmallPrimes(QCBaseLimit)

\* what sieve_segment(low, high, base_primes) returns
QCSegmentCount(low, high) ==
    Cardinality(Counted(QCSieveSegment(QCBasePrimes, low, high), low, high - low))

\* workers.emplace_back(worker_thread, ...)
QCSpawn ==
    /\ wq.pc \in {"idle", "spawning"}
    /\ wq.spawned < QC_NUM_THREADS
    /\ wq' = [wq EXCEPT !.w[wq.spawned + 1].pc = "lock",
                        !.spawned = wq.spawned + 1,
                        !.pc = IF wq.spawned + 1 = QC_NUM_THREADS
                               THEN "outer" ELSE "spawning"]

\* the steady clock passes the deadline
QCExpire ==
    /\ ~wq.expired
    /\ wq' = [wq EXCEPT !.expired = TRUE]

\* while (now() < deadline): the producer's outer loop test
QCOuterTest ==
    /\ wq.pc = "outer"
    /\ wq' = [wq EXCEPT !.pc = IF wq.expired THEN "finish_lock" ELSE "size_lock"]

\* queue_size(): std::lock_guard lock(mtx)
QCSizeLock ==
    /\ wq.pc = "size_lock"
    /\ wq.mtx = 0
    /\ wq' = [wq EXCEPT !.mtx = QCMain, !.pc = "size"]

\* queue_size(): return segments.size()
QCSize ==
    /\ wq.pc = "size"
    /\ wq' = [wq EXCEPT !.size = Len(wq.segments), !.mtx = 0, !.pc = "inner"]

\* while (queue_size() < NUM_THREADS * 3 && now() < deadline); else sleep
QCInnerTest ==
    /\ wq.pc = "inner"
    /\ IF BelowCap(wq.size) /\ ~wq.expired
       THEN /\ Len(wq.added) < QcMaxSegs
            /\ wq' = [wq EXCEPT !.pc = "add_lock"]
       ELSE wq' = [wq EXCEPT !.pc = "outer"]

\* add_segment(current_low, current_high): std::lock_guard lock(mtx)
QCAddLock ==
    /\ wq.pc = "add_lock"
    /\ wq.mtx = 0
    /\ wq' = [wq EXCEPT !.mtx = QCMain, !.pc = "add"]

\* segments.emplace(low, high); cv.notify_one(); then current_low =
\* current_high; max_range_processed = current_high
QCAdd ==
    /\ wq.pc = "add"
    /\ LET current_high == wq.current_low + SEG_SIZE
           seg == [low |-> wq.current_low, high |-> current_high]
       IN \E woken \in NotifyOne(wq.waiting) :
             wq' = [wq EXCEPT
                       !.segments = Append(wq.segments, seg),
                       !.added = Append(wq.added, seg),
                       !.was_full = wq.was_full
                                        \/ ~BelowCap(Len(wq.segments) + 1),
                       !.waiting = wq.waiting \ woken,
                       !.w = [t \in QCWorkers |->
                                 IF t \in woken THEN [wq.w[t] EXCEPT !.pc = "woken"]
                                 ELSE wq.w[t]],
                       !.mtx = 0,
                       !.current_low = current_high,
                       !.max_range_processed = current_high,
                       !.pc = "size_lock"]

\* finish(): std::lock_guard lock(mtx)
QCFinishLock ==
    /\ wq.pc = "finish_lock"
    /\ wq.mtx = 0
    /\ wq' = [wq EXCEPT !.mtx = QCMain, !.pc = "finish"]

\* finished = true; cv.notify_all();
QCFinish ==
    /\ wq.pc = "finish"
    /\ \E woken \in {NotifyAll(wq.waiting)} :
          wq' = [wq EXCEPT
                    !.finished = TRUE,
                    !.waiting = wq.waiting \ woken,
                    !.w = [t \in QCWorkers |->
                              IF t \in woken THEN [wq.w[t] EXCEPT !.pc = "woken"]
                              ELSE wq.w[t]],
                    !.notified = Cardinality(woken),
                    !.mtx = 0,
                    !.pc = "join"]

\* worker.join(), in the order the workers were started
QCJoin ==
    /\ wq.pc = "join"
    /\ wq.joined < QC_NUM_THREADS
    /\ wq.w[wq.joined + 1].pc = "finished"
    /\ wq' = [wq EXCEPT !.joined = wq.joined + 1]

\* all joined: the report
QCReport ==
    /\ wq.pc = "join"
    /\ wq.joined = QC_NUM_THREADS
    /\ wq' = [wq EXCEPT !.pc = "done"]

\* get_segment: std::unique_lock lock(mtx), on entry and when cv.wait
\* returns from blocking
QCLock(t) ==
    /\ wq.w[t].pc \in {"lock", "woken"}
    /\ wq.mtx = 0
    /\ wq' = [wq EXCEPT !.mtx = t, !.w[t].pc = "pred"]

\* cv.wait's predicate under the lock: block (releasing the mutex), return
\* false on an empty queue, or take the front segment
QCGet(t) ==
    /\ wq.w[t].pc = "pred"
    /\ IF ~WaitPredicate(wq.segments, wq.finished)
       THEN wq' = [wq EXCEPT !.waiting = wq.waiting \cup {t},
                             !.w[t].pc = "waiting", !.mtx = 0]
       ELSE IF wq.segments = <<>>
       THEN wq' = [wq EXCEPT !.w[t].pc = "finished", !.mtx = 0,
                             !.false_returns = wq.false_returns + 1]
       ELSE wq' = [wq EXCEPT !.w[t].seg = Head(wq.segments),
                             !.segments = QueuePop(wq.segments),
                             !.got = Append(wq.got, Head(wq.segments)),
                             !.w[t].pc = "sieve", !.mtx = 0]

\* a wake-up of cv.wait that no notify caused
QCSpurious(t) ==
    /\ wq.w[t].pc = "waiting"
    /\ wq' = [wq EXCEPT !.waiting = wq.waiting \ {t}, !.w[t].pc = "woken"]

\* primes_in_segment = sieve_segment(...); total_count.fetch_add(...)
QCSieve(t) ==
    /\ wq.w[t].pc = "sieve"
    /\ \E primes_in_segment \in
              {QCSegmentCount(wq.w[t].seg.low, wq.w[t].seg.high)} :
          wq' = [wq EXCEPT
                    !.total_prime_count = wq.total_prime_count + primes_in_segment,
                    !.counted[(wq.w[t].seg.low - 2) \div SEG_SIZE] = @ + 1,
                    !.w[t].pc = "lock"]

QCProgram ==
    \/ QCSpawn
    \/ QCExpire
    \/ QCOuterTest
    \/ QCSizeLock
    \/ QCSize
    \/ QCInnerTest
    \/ QCAddLock
    \/ QCAdd
    \/ QCFinishLock
    \/ QCFinish
    \/ QCJoin
    \/ QCReport
    \/ \E t \in QCWorkers : QCLock(t) \/ QCGet(t) \/ QCSieve(t)

NextQC ==
    \/ QCProgram /\ UNCHANGED nonWq
    \/ (\E t \in QCWorkers : QCSpurious(t)) /\ UNCHANGED nonWq

InitQC == InitCommon /\ prog = "qc"

SpecQC == InitQC /\ [][NextQC]_vars

\* every step the program itself takes is taken in the end; a wake-up that
\* no notify caused is never owed
QCFairness == WF_vars(QCProgram /\ UNCHANGED nonWq)

SpecQCFair == InitQC /\ [][NextQC]_vars /\ QCFairness

(* ------------- primes_quad_core.cpp: StreamingPrimeGenerator ------------ *)
nonGen == <<base_shared, piVars, base, base_sieved_to, call, mcVars, prog, rf, ar,
            cfg, sk, sg, wq, gs>>

\* mutant of FirstNew: every prime of the new sieve is stored again
FirstNewFromTwo(cache_limit) == 2

\* "Only store primes we didn't have before": for (i = cache_limit + 1; ...)
FirstNew(cache_limit) == cache_limit + 1

\* ensure_primes_up_to(n) on the generator g: the members it leaves
EnsurePrimesUpTo(g, n) ==
    IF n <= g.cache_limit THEN g
    ELSE LET is_prime == SmallMark((0..n) \ {0, 1}, 2, n)
         IN [cached_primes |-> g.cached_primes
                                   \o Collect(is_prime, FirstNew(g.cache_limit), n),
             cache_limit |-> n]

\* trim_cache_if_needed() on the generator g
TrimCacheIfNeeded(g) ==
    IF Len(g.cached_primes) > TRIM_SIZE
    THEN [cached_primes |-> <<>>, cache_limit |-> 0]
    ELSE g

\* the members of gen as a generator
GenMembers == [cached_primes |-> gen.cached_primes, cache_limit |-> gen.cache_limit]

\* a call of ensure_primes_up_to(n)
GenEnsure ==
    /\ gen.calls < GenCalls
    /\ \E n \in 0..MaxEnsure :
          \E g \in {EnsurePrimesUpTo(GenMembers, n)} :
             gen' = [gen EXCEPT !.cached_primes = g.cached_primes,
                                !.cache_limit = g.cache_limit,
                                !.op = "ensure", !.n = n,
                                !.before = GenMembers,
                                !.calls = gen.calls + 1]

\* a call of trim_cache_if_needed()
GenTrim ==
    /\ gen.calls < GenCalls
    /\ \E g \in {TrimCacheIfNeeded(GenMembers)} :
          gen' = [gen EXCEPT !.cached_primes = g.cached_primes,
                             !.cache_limit = g.cache_limit,
                             !.op = "trim", !.n = 0,
                             !.before = GenMembers,
                             !.calls = gen.calls + 1,
                             !.trims = gen.trims
                                          + (IF g = GenMembers THEN 0 ELSE 1)]

\* pi_worker_thread, "Update base primes if needed": under prime_gen_mutex,
\* ensure, copy the list, note the limit, trim
GenWorkerUpdate ==
    /\ gen.calls < GenCalls
    /\ \E need \in 1..MaxEnsure :
          /\ need > gen.local_prime_limit
          /\ \E g \in {EnsurePrimesUpTo(GenMembers, need)} :
             \E h \in {TrimCacheIfNeeded(g)} :
                gen' = [gen EXCEPT !.cached_primes = h.cached_primes,
                                   !.cache_limit = h.cache_limit,
                                   !.local_primes = g.cached_primes,
                                   !.local_prime_limit = need,
                                   !.op = "update", !.n = need,
                                   !.before = GenMembers,
                                   !.calls = gen.calls + 1,
                                   !.trims = gen.trims + (IF h = g THEN 0 ELSE 1)]

NextGen ==
    \/ GenEnsure /\ UNCHANGED nonGen
    \/ GenTrim /\ UNCHANGED nonGen
    \/ GenWorkerUpdate /\ UNCHANGED nonGen

InitGen == InitCommon /\ prog = "pw"

SpecGen == InitGen /\ [][NextGen]_vars

(* ----------- generic_segmented_sieve.cpp: a SegmentedSieve object ------- *)
nonGs == <<base_shared, piVars, base, base_sieved_to, call, mcVars, prog, rf, ar,
           cfg, sk, sg, wq, gen>>

\* SegmentedSieve<T> sieve(initial_segment_size)
GsConstruct ==
    /\ gs.pc = "new"
    /\ \E size \in 1..GsMaxSegment :
          gs' = [gs EXCEPT !.pc = "ready", !.segment_size = size,
                           !.base_primes = GenerateBasePrimes(GsBaseLimit)]

\* set_segment_size(new_size)
GsSetSegmentSize ==
    /\ gs.pc = "ready"
    /\ \E new_size \in 1..GsMaxSegment :
          gs' = [gs EXCEPT !.segment_size = new_size]

\* get_next_segment(): move the window, regenerate the base primes if
\* needed, return sieve_segment(current_low, current_high)
GsGetNextSegment ==
    /\ gs.pc = "ready"
    /\ gs.calls < GsMaxCalls
    /\ LET current_low == gs.current_high + 1
           current_high == current_low + gs.segment_size - 1
       IN \E ps \in {GsRegenerate(gs.base_primes, current_high)} :
          \E primes_in_segment \in
                 {GsCollect(GsFlags(ps, current_low, current_high), current_low)} :
             gs' = [gs EXCEPT
                       !.current_low = current_low,
                       !.current_high = current_high,
                       !.base_primes = ps,
                       !.calls = gs.calls + 1,
                       !.lows = Append(gs.lows, current_low),
                       !.highs = Append(gs.highs, current_high),
                       !.returned =
                           gs.returned
                               \o Collect(primes_in_segment, current_low, current_high)]

NextGs ==
    \/ GsConstruct /\ UNCHANGED nonGs
    \/ GsSetSegmentSize /\ UNCHANGED nonGs
    \/ GsGetNextSegment /\ UNCHANGED nonGs

InitGs == InitCommon /\ prog = "gs"

SpecGs == InitGs /\ [][NextGs]_vars

(* ------------------------------ reference ------------------------------ *)
\* trial division
IsPrime(v) == v >= 2 /\ \A d \in 2..(v - 1) : v % d # 0

PrimeSet(a, b) == {v \in a..b : IsPrime(v)}

StrictlyIncreasing(s) == \A i \in 1..(Len(s) - 1) : s[i] < s[i + 1]

\* s is exactly the increasing list of the primes <= n
CompleteTo(s, n) == StrictlyIncreasing(s) /\ Range(s) = PrimeSet(2, n)


(* ------------------- one thread, segments in order --------------------- *)
\* worker() run by a single thread over the first k segments from the base
\* offset: the table, the cursors and the count it reaches
RECURSIVE SeqRun(_)
SeqRun(k) ==
    IF k = 0
    THEN [tbl |-> EnsureCall(NewBasePrimes, BOOTSTRAP), next_mult |-> <<>>,
          count |-> 1]
    ELSE LET s == SeqRun(k - 1)
             lo == SegLo(ChunkLo((k - 1) \div CHUNK_SEGS), (k - 1) % CHUNK_SEGS)
             tbl == EnsureCall(s.tbl, SegNeed(SegHi(lo)))
             nm == SeedCursors(s.next_mult, tbl.primes, LoOdd(lo))
             r == StrikeAll(FullFlags, nm, tbl.primes, StartIdx(tbl.primes),
                            LoOdd(lo), 0)
         IN [tbl |-> tbl, next_mult |-> r.next_mult,
             count |-> s.count + PopcountArray(r.flags)]

(* ------------------------------- claims -------------------------------- *)
\* a worker has just sieved and counted a segment
Sieved(t) == th[t].pc = "seg_dl"

\* C1: the values a worker leaves marked prime in a segment [lo, hi) are
\* exactly the primes in [lo, hi) that trial division finds (2 is accounted
\* separately, every segment starts at an odd lo >= 3)
C1_SegmentMatchesTrialDivision ==
    \A t \in Threads :
        Sieved(t) =>
            Survivors(th[t].flags, LoOdd(th[t].lo)) = PrimeSet(th[t].lo, th[t].hi - 1)

\* the run handed out n chunks and sieved each of their segments exactly once
WholeRange(n) ==
    /\ Len(issued) = n
    /\ \A k \in SegIds : processed[k] = (IF k < n * CHUNK_SEGS THEN 1 ELSE 0)

\* C2: count conservation: when all workers have finished a fixed range of
\* whole chunks, the summed count equals the count of one thread sieving the
\* same segments in order
C2_CountConservation ==
    \A n \in 1..MaxChunks :
        (main.pc = "done" /\ WholeRange(n)) =>
            main.total = SeqRun(n * CHUNK_SEGS).count

\* C3: every get_chunk call returned a distinct id, and no two workers hold
\* the same chunk
C3_DistinctChunkIds ==
    /\ \A i, j \in 1..Len(issued) : i # j => issued[i].id # issued[j].id
    /\ \A t, u \in Threads :
          (t # u /\ th[t].pc \in {"ensure", "lock", "recheck", "push", "seed",
                                  "strike", "seg_dl"}
                 /\ th[u].pc \in {"ensure", "lock", "recheck", "push", "seed",
                                  "strike", "seg_dl"})
          => th[t].chunk_lo # th[u].chunk_lo

\* both workers hold a chunk at the same time, after two get_chunk calls
C3_Witness ==
    /\ Len(issued) = 2
    /\ th[1].pc = "strike"
    /\ th[2].pc = "strike"

\* C4: id k gets [3 + k*CHUNK_SPAN, 3 + (k+1)*CHUNK_SPAN); the ranges issued
\* are pairwise disjoint and together are [3, 3 + n*CHUNK_SPAN) after n calls
C4_ChunkRangesTile ==
    /\ \A i \in 1..Len(issued) : issued[i].lo = 3 + issued[i].id * CHUNK_SPAN
    /\ \A i, j \in 1..Len(issued) :
          i # j => \/ issued[i].lo + CHUNK_SPAN <= issued[j].lo
                   \/ issued[j].lo + CHUNK_SPAN <= issued[i].lo
    /\ UNION {issued[i].lo..(issued[i].lo + CHUNK_SPAN - 1) : i \in 1..Len(issued)}
          = 3..(3 + Len(issued) * CHUNK_SPAN - 1)
    /\ \A t \in Threads :
          Sieved(t) =>
              /\ \E i \in 1..Len(issued) : issued[i].lo = th[t].chunk_lo
              /\ th[t].chunk_lo <= th[t].lo
              /\ th[t].hi <= th[t].chunk_lo + CHUNK_SPAN

\* two chunks were issued and a worker has sieved the last segment of the
\* second
C4_Witness ==
    /\ Len(issued) = 2
    /\ \E t \in Threads :
          Sieved(t) /\ th[t].hi = 3 + 2 * CHUNK_SPAN

\* C5: at Done every segment below the reported upper bound (Final N
\* processed) has been sieved and counted exactly once
C5_NoHoleBelowUpperBound ==
    main.pc = "done" =>
        \A k \in SegIds :
            3 + (k + 1) * SEG_SPAN <= main.final_N_processed => processed[k] = 1

\* C6: after ensure(target) (and extend_base_primes(target)) returns,
\* sieved_to >= target and primes is the complete list of primes <= sieved_to
C6_EnsurePostcondition ==
    /\ call.op = "ensure" =>
          /\ base_shared.sieved_to >= call.arg
          /\ CompleteTo(base_shared.primes, base_shared.sieved_to)
    /\ call.op = "extend" =>
          /\ base_sieved_to >= call.arg
          /\ CompleteTo(base, base_sieved_to)

\* ensure(6) extended a table that held the primes up to 5: the new bound is
\* the doubled 10
C6_Witness ==
    /\ call = [op |-> "ensure", arg |-> 6]
    /\ base_shared.sieved_to = 10
    /\ base_shared.primes = <<2, 3, 5, 7>>

\* C7: a call ensure(k) (extend_base_primes(k)) with k <= sieved_to leaves
\* primes and sieved_to exactly as they were
C7_EnsureIdempotent ==
    [][/\ (call'.op = "ensure" /\ call'.arg <= base_shared.sieved_to)
            => base_shared' = base_shared
       /\ (call'.op = "extend" /\ call'.arg <= base_sieved_to)
            => (base' = base /\ base_sieved_to' = base_sieved_to)]_vars

\* ensure(5) was the last call on a table sieved to 10: only ensure(10) made
\* that bound, so the call ensure(5) came after it and changed nothing
C7_Witness ==
    /\ call = [op |-> "ensure", arg |-> 5]
    /\ base_shared.sieved_to = 10
    /\ base_shared.primes = <<2, 3, 5, 7>>

\* C8: the table's data invariant: primes strictly increasing (so without
\* duplicates), every prime <= sieved_to in it, no value > sieved_to in it
C8_TableInvariant ==
    /\ \A i \in 1..(Len(base_shared.primes) - 1) :
          base_shared.primes[i] < base_shared.primes[i + 1]
    /\ \A v \in 2..base_shared.sieved_to :
          IsPrime(v) => v \in Range(base_shared.primes)
    /\ \A i \in 1..Len(base_shared.primes) :
          /\ IsPrime(base_shared.primes[i])
          /\ base_shared.primes[i] <= base_shared.sieved_to

\* a table extended at least twice: 23 is only reached by doubling past 12
C8_Witness ==
    /\ base_shared.sieved_to > MaxNeed
    /\ Len(base_shared.primes) >= 6

\* C9: the primes list a worker struck a segment with is a complete prime
\* list that covers the need the worker's coverage check relied on
C9_SnapshotValid ==
    \A t \in Threads :
        Sieved(t) =>
            LET u == th[t].used IN
            /\ StrictlyIncreasing(u)
            /\ PrimeSet(2, th[t].need) \subseteq Range(u)
            /\ \A v \in Range(u) : PrimeSet(2, v) \subseteq Range(u)
            /\ \A v \in Range(u) : IsPrime(v)

\* the threads inside a rebuild of the shared table: between primes.clear()
\* and the store of sieved_to, resp. in small_primes / the store of the limit
Rebuilding ==
    {<<"pi", t>> : t \in {u \in Threads : th[u].pc = "push"}}
        \cup {<<"mc", t>> : t \in {u \in MCThreads : mc[u].pc = "rebuild"}}

\* C10, first and third part: at most one thread rebuilds at a time, it holds
\* the mutex, and its need exceeds the shared limit (a thread whose need an
\* earlier rebuild covers performs none)
C10_OneNeededRebuild ==
    /\ Cardinality(Rebuilding) <= 1
    /\ \A t \in Threads :
          th[t].pc \in {"recheck", "push"} => base_shared.mtx = t
    /\ \A t \in Threads :
          th[t].pc = "push" => th[t].need > base_shared.sieved_to
    /\ \A t \in MCThreads :
          mc[t].pc \in {"recheck", "rebuild", "copy"} => mcs.base_primes_mutex = t
    /\ \A t \in MCThreads :
          mc[t].pc = "rebuild" => mc[t].need > mcs.shared_base_limit

\* C10, second part as the code has it: a thread queues for the extension
\* lock only when its need exceeds the shared limit it reads; worker_thread
\* of optimized_multi_core.cpp queues for the mutex a second time, to copy
\* the shared list, whenever its need exceeds its thread-local limit
C10_LockStep ==
    /\ \A t \in Threads :
          (th[t].pc # "lock" /\ th'[t].pc = "lock")
              => th[t].need > base_shared.sieved_to
    /\ \A t \in MCThreads :
          (mc[t].pc # "lock_extend" /\ mc'[t].pc = "lock_extend")
              => mc[t].need > mcs.shared_base_limit
    /\ \A t \in MCThreads :
          (mc[t].pc # "lock_copy" /\ mc'[t].pc = "lock_copy")
              => mc[t].need > mc[t].local_base_limit
    /\ \A t \in Threads :
          (th[t].pc = "recheck" /\ th[t].need <= base_shared.sieved_to)
              => (base_shared'.primes = base_shared.primes
                  /\ base_shared'.sieved_to = base_shared.sieved_to)
    /\ \A t \in MCThreads :
          (mc[t].pc = "recheck" /\ mc[t].need <= mcs.shared_base_limit)
              => (mcs'.shared_base_primes = mcs.shared_base_primes
                  /\ mcs'.shared_base_limit = mcs.shared_base_limit)

\* C10 (amended): check-lock-check; one rebuilder at a time, the extension
\* lock taken only when the need exceeds the shared limit read, the copy lock
\* of optimized_multi_core.cpp when it exceeds the local limit, and no
\* rebuild by a thread whose need the table already covers
C10_CheckLockCheck == [](C10_OneNeededRebuild) /\ [][C10_LockStep]_vars

\* two threads raced to extend and the first rebuild covers the second: the
\* second holds the mutex in front of a re-check that is satisfied
C10_Witness ==
    \E t \in MCThreads :
        /\ mc[t].pc = "recheck"
        /\ mcs.base_primes_mutex = t
        /\ mc[t].need <= mcs.shared_base_limit
        /\ mcs.shared_base_primes # <<>>

\* C10 as stated: a thread takes (queues for) the lock only when its target
\* exceeds the current shared limit
C10_LockOnlyToExtend ==
    [][/\ \A t \in Threads :
             (th[t].pc # "lock" /\ th'[t].pc = "lock")
                 => th[t].need > base_shared.sieved_to
       /\ \A t \in MCThreads :
             (mc[t].pc \notin {"lock_extend", "lock_copy"}
                  /\ mc'[t].pc \in {"lock_extend", "lock_copy"})
                 => mc[t].need > mcs.shared_base_limit]_vars

C18_NoWrappedValue ==
    /\ ar.op = "fetch_add" => ar.out = ar.a + 1
    /\ (ar.op = "ensure" /\ ar.a > ar.b) => ar.out >= Min(2 * ar.b, U32_MAX)

\* the seg_count values of the threads 1..n, summed
RECURSIVE SumSieved(_)
SumSieved(n) == IF n = 0 THEN 0 ELSE SumSieved(n - 1) + th[n].sieved_count

\* C12: the prime 2 is counted exactly once: once a worker has started,
\* exactly one thread's local_count includes it, whatever the start order,
\* and the total at Done is the segments' counts plus one; the refactor
\* variant adds it once, with its first segment
C12_TwoCountedOnce ==
    /\ Cardinality({t \in Threads : th[t].took_two})
           = (IF started # <<>> THEN 1 ELSE 0)
    /\ \A t \in Threads :
          th[t].local_count = (IF th[t].took_two THEN 1 ELSE 0) + th[t].sieved_count
    /\ main.pc = "done" => main.total = 1 + SumSieved(NumThreads)
    /\ rf.twos = (IF rf.segs >= 1 THEN 1 ELSE 0)

\* the thread spawned second started first and took the 2; both threads
\* sieved segments and the driver has reduced
C12_Witness ==
    /\ main.pc = "done"
    /\ th[2].took_two
    /\ th[1].sieved_count > 0
    /\ th[2].sieved_count > 0

\* the primes of the ranges that were processed: 2 and the primes of every
\* segment a worker sieved
ProcessedPrimes ==
    {2} \cup UNION {PrimeSet(3 + k * SEG_SPAN, 3 + (k + 1) * SEG_SPAN - 1) :
                       k \in {i \in SegIds : processed[i] >= 1}}

\* C13: the largest prime reported at Done is a prime and is the largest
\* prime of the ranges that were processed
C13_LargestPrimeReported ==
    /\ \A t \in Threads :
          th[t].local_largest
              = Max(IF th[t].took_two THEN 2 ELSE 0, th[t].max_survivor)
    /\ main.pc = "done" =>
          /\ IsPrime(main.maxp)
          /\ main.maxp = Largest(ProcessedPrimes)
          /\ main.maxp = Largest({th[t].local_largest : t \in Threads})

\* at Done all four segments were sieved, the largest prime below 67 is
\* reported, and one thread's own largest survivor is a composite
C13_Witness ==
    /\ main.pc = "done"
    /\ main.maxp = 61
    /\ \A k \in SegIds : processed[k] = 1
    /\ \E t \in Threads :
          results[t].largest_prime > 2 /\ ~IsPrime(results[t].largest_prime)

\* C14 (amended): cancellation is cooperative: after its deadline has passed
\* a worker sieves at most one more segment and claims at most one more
\* chunk (the one whose loop test it had already passed), of which it sieves
\* the first segment only; a worker leaves its loop only after the deadline
C14_CooperativeCancel ==
    \A t \in Threads :
        /\ th[t].late_segs <= 1
        /\ th[t].late_chunks <= 1
        /\ (th[t].late_chunks = 1 /\ th[t].pc \in {"chunk_dl", "loop", "out", "finished"})
               => th[t].seg = 0
        /\ ~(th[t].late_segs = 1 /\ th[t].pc = "get")
        /\ th[t].pc \in {"out", "finished"} => th[t].expired

\* a worker passed the loop test, the deadline passed, it claimed the second
\* chunk, sieved its first segment and left
C14_Witness ==
    \E t \in Threads :
        /\ th[t].pc = "finished"
        /\ th[t].late_chunks = 1
        /\ th[t].late_segs = 1
        /\ th[t].chunk_lo = ChunkLo(1)

\* C14 as stated: once the deadline has passed a worker finishes at most one
\* segment and claims no new chunk
C14_NoChunkAfterDeadline ==
    \A t \in Threads : th[t].late_segs <= 1 /\ th[t].late_chunks = 0

\* C15: under fair scheduling and deadlines that pass, every worker leaves
\* its loop and ends, all joins complete and the driver reaches Done
C15_Terminates ==
    <>(/\ main.pc = "done"
       /\ main.joined = NumThreads
       /\ \A t \in Threads : th[t].pc = "finished")

\* the run has ended after the table was extended under the lock, every
\* chunk was handed out and both workers sieved and left their loops
C15_Witness ==
    /\ main.pc = "done"
    /\ \A t \in Threads : th[t].pc = "finished" /\ th[t].local_segments >= 1
    /\ Len(issued) = MaxChunks
    /\ base_shared.sieved_to > BOOTSTRAP
    /\ base_shared.mtx = 0

\* the driver's states in their order
DriverRank(pc) ==
    CASE pc = "idle" -> 0
      [] pc = "running" -> 1
      [] pc = "draining" -> 2
      [] pc = "done" -> 3

\* C16: the driver goes Idle, Running, Draining, Done, one state at a time
\* and never backwards; the step that reduces is taken only when every
\* thread was joined and has published its final local totals, and it sums
\* those counts and takes the maximum of those largest primes
C16_DriverOrder ==
    [][/\ DriverRank(main'.pc) \in {DriverRank(main.pc), DriverRank(main.pc) + 1}
       /\ (main.pc # "done" /\ main'.pc = "done") =>
              /\ main.pc = "draining"
              /\ main.joined = NumThreads
              /\ \A t \in Threads :
                    /\ th[t].pc = "finished"
                    /\ results[t].primes_count = th[t].local_count
                    /\ results[t].largest_prime = th[t].local_largest
              /\ main'.total = SumCounts([t \in Threads |->
                                    [primes_count |-> th[t].local_count]], NumThreads)
              /\ main'.maxp = Largest({th[t].local_largest : t \in Threads})
       /\ (main.pc = "done") => (main' = main /\ results' = results)]_vars

\* the driver is Done with the sum of two non-zero thread counts and the
\* larger of two different thread maxima
C16_Witness ==
    /\ main.pc = "done"
    /\ \A t \in Threads : th[t].local_count > 0 /\ results[t].primes_count > 0
    /\ main.total = th[1].local_count + th[2].local_count
    /\ th[1].local_largest > th[2].local_largest
    /\ main.maxp = th[1].local_largest

\* C17: a thread count of zero is rejected before any worker thread is
\* spawned
C17_ZeroThreadsRejected ==
    (cfg.argc >= 3 /\ cfg.t = 0) => cfg.spawned = 0

\* the list holds every prime <= floor(sqrt(hi - 1))
CoversSegment(list, hi) == PrimeSet(2, Isqrt(hi - 1)) \subseteq Range(list)

\* the chunked variant: the shared table as a worker struck with it
PiCoverage == \A t \in Threads : Sieved(t) => CoversSegment(th[t].used, th[t].hi)

\* optimized_multi_core.cpp: the thread-local copy a thread is about to
\* strike with
McCoverage ==
    \A t \in MCThreads :
        mc[t].pc = "sieve" => CoversSegment(mc[t].local_base_primes, mc[t].high)

\* the refactor variant: the list its last segment was struck with
RfCoverage == rf.segs >= 1 => CoversSegment(base, rf.hi)

\* C19: whenever a segment [lo, hi) is struck, the base-prime list used
\* contains every prime <= floor(sqrt(hi - 1)), in all three programs
C19_CoverageBeforeSieving == PiCoverage /\ McCoverage /\ RfCoverage

\* the smallest odd multiple of p that is >= lo
SmallestOddMultiple(p, lo) ==
    CHOOSE m \in lo..(lo + 2 * p) :
        /\ m % p = 0 /\ m % 2 = 1
        /\ \A k \in lo..(m - 1) : ~(k % p = 0 /\ k % 2 = 1)

\* the chunked variant: the cursor every base prime's strike loop starts
\* with when a worker is about to strike, whatever an out-of-range read gives
PiCursorsValid ==
    \A t \in Threads :
        th[t].pc = "strike" =>
            LET ps == base_shared.primes
                nm == th[t].next_mult
                lo_odd == LoOdd(th[t].lo)
            IN \A bi \in StartIdx(ps)..Len(ps), g \in Garbage(lo_odd) :
                  Revalidate(IF bi <= Len(nm) THEN nm[bi] ELSE g, ps[bi], lo_odd)
                      = SmallestOddMultiple(ps[bi], lo_odd)

\* the refactor variant: the cursors its last segment's strike loops
\* started with
RfCursorsValid ==
    rf.segs >= 1 =>
        \A bi \in StartIdx(base)..Len(base) :
            rf.start_mult[bi] = SmallestOddMultiple(base[bi], rf.lo_odd)

\* C20: when the strike loop of a segment starts for a base prime p > 2, the
\* cursor used is the smallest odd multiple of p >= the segment's lower
\* bound, whether carried or re-validated
C20_CursorValid == PiCursorsValid /\ RfCursorsValid

\* the cursor a strike loop starts from: the one handed in, or the first odd
\* multiple at or after the lower bound when that one lies behind
StrikeStart ==
    IF sk.j0 < sk.lo THEN CHOOSE m \in OddMultiples(sk.p, sk.lo, sk.lo + 2 * sk.p) :
                              OddMultiples(sk.p, sk.lo, m - 1) = {}
    ELSE sk.j0

\* C21: the strike of a base prime p > 2 clears exactly the bits of the odd
\* multiples of p from the cursor up to, excluding, hi, and the cursor it
\* stores is the first odd multiple of p that is >= hi
C21_StrikeExact ==
    sk.op \in {"pi", "rf"} =>
        /\ sk.flags = sk.before \ {(m - sk.lo_odd) \div 2 :
                                      m \in OddMultiples(sk.p, StrikeStart, sk.hi - 1)}
        /\ sk.j % sk.p = 0 /\ sk.j % 2 = 1 /\ sk.j >= sk.hi
        /\ OddMultiples(sk.p, sk.hi, sk.j - 1) = {}

\* p = 5 from the segment's first odd multiple: the unrolled loop runs once
\* and the remainder loop clears the fifth multiple
C21_Witness ==
    /\ sk.op = "pi"
    /\ sk.p = 5
    /\ sk.j0 = sk.lo_odd + 2
    /\ sk.before = StrikeFlags
    /\ Cardinality(sk.before \ sk.flags) = 5
    /\ sk.j = sk.hi + 4

\* C22: every entry of next_mult is non-decreasing over a worker's life:
\* no step leaves an entry below the largest value that index has held, in
\* the chunked variant (where the vector can also shrink and grow again) and
\* in the refactor variant
C22_CursorsMonotone ==
    [][/\ \A t \in Threads :
             \A i \in 1..Len(th'[t].next_mult) :
                 /\ i <= Len(th[t].next_mult)
                        => th'[t].next_mult[i] >= th[t].next_mult[i]
                 /\ i <= Len(th[t].hw_mult)
                        => th'[t].next_mult[i] >= th[t].hw_mult[i]
       /\ \A i \in 1..Len(rf'.next_mult) :
             i <= Len(rf.next_mult) => rf'.next_mult[i] >= rf.next_mult[i]]_vars

\* a worker has sieved both segments of the first chunk and a segment of
\* the second, its table grew on the way, and the cursor of 3 has moved on
\* with it
C22_Witness ==
    \E t \in Threads :
        /\ th[t].local_segments >= 3
        /\ th[t].chunk_lo = ChunkLo(1)
        /\ Len(th[t].next_mult) >= 4
        /\ th[t].next_mult[2] >= th[t].lo + SEG_SPAN
        /\ th[t].hw_mult = th[t].next_mult

\* C23: for a base prime p and two adjacent segments, the second segment
\* struck from the cursor carried out of the first has exactly the bits
\* cleared that it has when struck from the first odd multiple of p >= lo
\* computed by division
C23_CarryEquivalence ==
    sk.op \in {"carry_pi", "carry_rf"} => sk.flags = sk.other

\* p = 5 carried from [3, 51) into [51, 99): the cursor 55 was reached by
\* additions, and five multiples are struck either way
C23_Witness ==
    /\ sk.op = "carry_pi"
    /\ sk.p = 5
    /\ sk.lo_odd = 3 + 2 * STRIKE_BITS
    /\ sk.j0 = sk.lo_odd + 4
    /\ sk.before = StrikeFlags
    /\ sk.flags = sk.other
    /\ Cardinality(sk.before \ sk.flags) = 5

\* the seeding step of a worker whose table has grown: the old entries keep
\* their values, one entry is appended per new prime, set to the first odd
\* multiple >= lo_odd (0 for the prime 2)
PiSeedFrame(t) ==
    LET old == th[t].next_mult
        new == th'[t].next_mult
        ps == base_shared.primes
    IN (th[t].pc = "seed" /\ th'[t].pc = "strike" /\ Len(ps) > Len(old)) =>
          /\ Len(new) = Len(ps)
          /\ \A i \in 1..Len(old) : new[i] = old[i]
          /\ \A i \in (Len(old) + 1)..Len(ps) :
                new[i] = IF ps[i] = 2 THEN 0
                         ELSE SmallestOddMultiple(ps[i], LoOdd(th[t].lo))

\* the same for a pass of the refactor variant's loop in which base grew:
\* the cursors as seeded for that pass
RfSeedFrame ==
    (rf'.segs = rf.segs + 1 /\ Len(base') > Len(rf.next_mult)) =>
        LET nm == RfSeed(rf.next_mult, base', rf.lo) IN
        /\ Len(nm) = Len(base')
        /\ \A i \in 1..Len(rf.next_mult) : nm[i] = rf.next_mult[i]
        /\ \A i \in (Len(rf.next_mult) + 1)..Len(base') :
              nm[i] = IF base'[i] = 2 THEN 0
                      ELSE SmallestOddMultiple(base'[i], rf.lo)

\* C24: when the base table has grown since the cursors were last seeded,
\* the seeding appends cursors for the new primes only, each the first odd
\* multiple >= the current lo, and leaves the values of the others unchanged
C24_SeedAppendsOnly ==
    [][(\A t \in Threads : PiSeedFrame(t)) /\ RfSeedFrame]_vars

\* a worker that struck its last segment with a shorter table has seeded
\* cursors for the primes added since
C24_Witness ==
    \E t \in Threads :
        /\ th[t].pc = "strike"
        /\ th[t].local_segments >= 1
        /\ Len(th[t].used) >= 2
        /\ Len(th[t].next_mult) > Len(th[t].used)
        /\ Len(th[t].next_mult) = Len(base_shared.primes)

\* C25: a worker walks the segments of a chunk upwards, each starting at the
\* hi of the one before, and every chunk it claims lies above the chunk it
\* had before and is entered at its first segment
C25_SegmentOrder ==
    [][\A t \in Threads :
          /\ th'[t].chunk_lo # th[t].chunk_lo =>
                 /\ th'[t].chunk_lo > th[t].chunk_lo
                 /\ th'[t].seg = 0
                 /\ th'[t].lo = th'[t].chunk_lo
                 /\ th'[t].lo >= th[t].hi
          /\ (th'[t].chunk_lo = th[t].chunk_lo /\ th'[t].lo # th[t].lo) =>
                 /\ th'[t].lo = th[t].hi
                 /\ th'[t].lo > th[t].lo
                 /\ th'[t].seg = th[t].seg + 1
          /\ th'[t].hi # th[t].hi => th'[t].hi = th'[t].lo + SEG_SPAN]_vars

\* one worker has sieved both segments of the first chunk and is in the
\* second segment of the second chunk
C25_Witness ==
    \E t \in Threads :
        /\ th[t].chunk_lo = ChunkLo(1)
        /\ th[t].seg = 1
        /\ th[t].lo = ChunkLo(1) + SEG_SPAN
        /\ th[t].local_segments = 3
        /\ processed[0] = 1 /\ processed[1] = 1 /\ processed[2] = 1

(* C26: in every variant the values 0 and 1 are never counted as prime: a
   segment whose range holds 0 or 1 has their flags cleared when the marking
   is done, and a segment that starts at 2 or above does not represent them *)
C26_ZeroOneNotCounted ==
    sg.variant # "none" =>
        /\ 0 \notin sg.counted
        /\ 1 \notin sg.counted
        /\ IF sg.low <= 1
           THEN \A v \in {0, 1} :
                    (sg.low <= v /\ v <= sg.high) => (v - sg.low) \notin sg.bits
           ELSE \A v \in sg.counted : v >= 2

\* C26 witness: the generic sieve has sieved a segment that starts at 0 and
\* reaches beyond 1, and returned the primes 2 and 3 from it
C26_Witness ==
    /\ sg.variant = "gs"
    /\ sg.low = 0
    /\ sg.high >= 3
    /\ {2, 3} \subseteq sg.counted

(* C27: whenever a worker's strike loop reads or writes next_mult[bi], bi is
   below next_mult.size(): the loop runs bi from start_idx up to
   base_shared->primes.size(), so every index of the list it is about to
   strike with is one of next_mult, also when another thread changes the
   shared list after the seeding (sequences count from 1) *)
C27_CursorIndexInRange ==
    prog = "pi" =>
        \A t \in Threads :
            th[t].pc = "strike" =>
                \A bi \in StartIdx(base_shared.primes)..Len(base_shared.primes) :
                    bi <= Len(th[t].next_mult)

(* C28: every bit the strike of a base prime clears lies inside the segment
   buffer: the value j it stands for is >= lo_odd and its index
   (j - lo_odd) / 2 is below the number of odd positions of the buffer; the
   bits cleared are those of the values written *)
C28_StrikeInBuffer ==
    sk.op \in {"pi", "rf", "any"} =>
        /\ \A w \in sk.written :
              /\ w.j >= sk.lo_odd
              /\ w.idx = (w.j - sk.lo_odd) \div 2
              /\ w.idx \in StrikeFlags
        /\ sk.before \ sk.flags \subseteq {w.idx : w \in sk.written}

\* C28 witness: the refactor variant strikes 3 on its first segment (lo = 2,
\* lo_odd = 3) from the cursor 3, and the last write lands on the last but
\* one position of the buffer
C28_Witness ==
    /\ sk.op = "rf"
    /\ sk.lo = 2
    /\ sk.p = 3
    /\ [j |-> 3, idx |-> 0] \in sk.written
    /\ \E w \in sk.written : w.idx = STRIKE_BITS - 3

(* C29: in the sieves over all integers (optimized_multi_core.cpp, the
   single-threaded sieve, primes_quad_core.cpp) the strike of a base prime p
   never clears p itself: a base prime that lies in the segment still has its
   bit set when the marking is done and is counted; so 2 is, on the first
   segment (low = 2) *)
C29_PrimeNotStruck ==
    sg.variant \in {"mc", "st", "qc"} =>
        \A k \in 1..Len(sg.ps) :
            (sg.low <= sg.ps[k] /\ sg.ps[k] < sg.high) =>
                /\ (sg.ps[k] - sg.low) \in sg.bits
                /\ sg.ps[k] \in sg.counted

\* what does hold: every odd base prime of the segment keeps its bit
OddPrimesNotStruck ==
    sg.variant \in {"mc", "st", "qc"} =>
        \A k \in 1..Len(sg.ps) :
            (sg.ps[k] > 2 /\ sg.low <= sg.ps[k] /\ sg.ps[k] < sg.high) =>
                sg.ps[k] \in sg.counted

\* how often the segment that starts at low was sieved and counted
MCTimesCounted(low) ==
    Cardinality({x \in MCThreads \X (1..MaxSegs) :
                    /\ x[2] <= Len(mc[x[1]].counted_lows)
                    /\ mc[x[1]].counted_lows[x[2]] = low})

\* the segments handed out so far
MCClaimedLows ==
    {low \in {2 + k * SEG_SIZE : k \in 0..(MaxSegs - 1)} : low < mcs.global_low}

(* C30: in optimized_multi_core.cpp a claimed segment is always sieved and
   counted: once all workers are joined, every segment [2 + k*SEG_SIZE, ...)
   below global_low was counted exactly once, and total_prime_count is the
   number of primes in [2, global_low) *)
C30_ClaimedSegmentsCounted ==
    (prog = "mc" /\ mcmain.joined = NUM_THREADS) =>
        /\ \A low \in MCClaimedLows : MCTimesCounted(low) = 1
        /\ mcs.total_prime_count
               = Cardinality({v \in 2..(mcs.global_low - 1) : IsPrime(v)})

\* what does hold: every claimed segment is counted exactly once, by the
\* thread that claimed it, and the total is short of the primes below
\* global_low by the prime 2
MCCountedOnceShortOfTwo ==
    (prog = "mc" /\ mcmain.joined = NUM_THREADS) =>
        /\ \A low \in MCClaimedLows : MCTimesCounted(low) = 1
        /\ mcs.total_prime_count + (IF mcs.global_low > 2 THEN 1 ELSE 0)
               = Cardinality({v \in 2..(mcs.global_low - 1) : IsPrime(v)})

\* a segment is never counted twice and a thread that holds a claimed
\* segment has not finished
MCNoSegmentLost ==
    prog = "mc" =>
        /\ \A low \in MCClaimedLows : MCTimesCounted(low) <= 1
        /\ \A low \in MCClaimedLows :
              MCTimesCounted(low) = 0 =>
                  \E t \in MCThreads :
                      /\ mc[t].low = low
                      /\ mc[t].pc \in {"check", "lock_extend", "recheck",
                                       "rebuild", "lock_copy", "copy", "sieve"}

(* C31: the WorkQueue hands out each segment exactly once: the segments
   get_segment has returned so far are, in order, the first segments that
   add_segment was given, no two returns give the same segment, and a worker
   that sieves holds one of the segments returned *)
C31_EachSegmentOnceInOrder ==
    prog = "qc" =>
        /\ Len(wq.got) <= Len(wq.added)
        /\ \A i \in 1..Len(wq.got) : wq.got[i] = wq.added[i]
        /\ \A i, j \in 1..Len(wq.got) : i # j => wq.got[i] # wq.got[j]
        /\ \A t \in QCWorkers :
              wq.w[t].pc = "sieve" =>
                  /\ \E i \in 1..Len(wq.got) : wq.got[i] = wq.w[t].seg
                  /\ \A u \in QCWorkers :
                        (u # t /\ wq.w[u].pc = "sieve") => wq.w[u].seg # wq.w[t].seg

\* C31 witness: both workers hold a segment at once, the second worker the
\* one added first, while the producer has added a third
C31_Witness ==
    /\ prog = "qc"
    /\ wq.w[1].pc = "sieve" /\ wq.w[2].pc = "sieve"
    /\ wq.w[2].seg.low = 2
    /\ wq.w[1].seg.low = 2 + SEG_SIZE
    /\ Len(wq.added) >= 3

\* all workers have left worker_thread and main has joined them
QCAllJoined ==
    /\ wq.pc = "done"
    /\ \A t \in QCWorkers : wq.w[t].pc = "finished"

\* a worker has left only after finish(), with the queue empty, and once
\* all are joined every segment added was returned and counted once
QCDrained ==
    /\ (\E t \in QCWorkers : wq.w[t].pc = "finished") =>
           (wq.finished /\ wq.segments = <<>>)
    /\ QCAllJoined =>
           /\ wq.got = wq.added
           /\ \A k \in 0..(QcMaxSegs - 1) :
                 wq.counted[k] = (IF k < Len(wq.added) THEN 1 ELSE 0)

\* a get_segment call returns false only with finished set and the queue empty
QCFalseOnlyWhenDrained ==
    wq'.false_returns > wq.false_returns => (wq.finished /\ wq.segments = <<>>)

(* C32: the WorkQueue's shutdown drains and never deadlocks: get_segment
   returns false only when finish() was called and the queue is empty, every
   segment added before finish() is still returned and counted, and once
   finish() has run every worker, blocked in the wait or arriving later,
   returns in the end, so that all workers are joined *)
C32_ShutdownDrains ==
    /\ [](prog = "qc" => QCDrained)
    /\ [][QCFalseOnlyWhenDrained]_vars
    /\ ((prog = "qc" /\ wq.finished) ~> QCAllJoined)

\* C32 witness: finish() woke a worker that was blocked in the wait while
\* the other one was still busy, three segments were added, and all workers
\* are joined
C32_Witness ==
    /\ prog = "qc"
    /\ QCAllJoined
    /\ wq.notified = 1
    /\ wq.false_returns = QC_NUM_THREADS
    /\ Len(wq.added) = 3

\* the sum of what sieve_segment returns for the first n segments from 2
RECURSIVE QCSumCounts(_)
QCSumCounts(n) ==
    IF n = 0 THEN 0
    ELSE QCSumCounts(n - 1)
             + QCSegmentCount(2 + (n - 1) * SEG_SIZE, 2 + n * SEG_SIZE)

(* C33: in the queue-based driver the producer enqueues contiguous segments
   from 2 on, each segment's low being the previous segment's high, and the
   queue never holds more than NUM_THREADS * 3 segments; after the workers
   are joined, total_prime_count is the sum of the counts of exactly the
   segments that cover [2, max_range_processed), each counted once *)
C33_ProducerContiguousBounded ==
    prog = "qc" =>
        /\ \A i \in 1..Len(wq.added) :
              /\ wq.added[i].low = (IF i = 1 THEN 2 ELSE wq.added[i - 1].high)
              /\ wq.added[i].high = wq.added[i].low + SEG_SIZE
        /\ wq.max_range_processed = 2 + Len(wq.added) * SEG_SIZE
        /\ Len(wq.segments) <= QC_NUM_THREADS * 3
        /\ QCAllJoined =>
              /\ \A k \in 0..(QcMaxSegs - 1) :
                    wq.counted[k] = (IF k < Len(wq.added) THEN 1 ELSE 0)
              /\ wq.total_prime_count = QCSumCounts(Len(wq.added))

\* C33 witness: the queue was full once (NUM_THREADS * 3 segments), the
\* producer went on after the workers took some, and all workers are joined
\* with seven segments counted
C33_Witness ==
    /\ prog = "qc"
    /\ QCAllJoined
    /\ wq.was_full
    /\ Len(wq.added) = QcMaxSegs
    /\ wq.total_prime_count = QCSumCounts(QcMaxSegs)

\* s is the increasing list of all primes <= limit
IsPrimeListUpTo(s, limit) ==
    /\ Range(s) = {v \in 2..limit : IsPrime(v)}
    /\ \A i \in 1..(Len(s) - 1) : s[i] < s[i + 1]

(* C34: the StreamingPrimeGenerator keeps its cache consistent: after any
   sequence of ensure_primes_up_to and trim_cache_if_needed calls
   cached_primes is the increasing, duplicate-free list of all primes
   <= cache_limit; ensure_primes_up_to(n) with n <= cache_limit changes
   nothing; a trim resets the list and the limit together, and the ensure
   after it rebuilds the full list from 2; the list a worker copied is the
   full list up to its local limit *)
C34_CacheConsistent ==
    /\ IsPrimeListUpTo(gen.cached_primes, gen.cache_limit)
    /\ (gen.op = "ensure" /\ gen.n <= gen.before.cache_limit) =>
           GenMembers = gen.before
    /\ (gen.op = "ensure" /\ gen.n > gen.before.cache_limit) =>
           gen.cache_limit = gen.n
    /\ gen.op = "trim" =>
           IF Len(gen.before.cached_primes) > TRIM_SIZE
           THEN gen.cached_primes = <<>> /\ gen.cache_limit = 0
           ELSE GenMembers = gen.before
    /\ gen.op = "update" =>
           IsPrimeListUpTo(gen.local_primes, Max(gen.n, gen.before.cache_limit))

\* C34 witness: after a trim that cleared the cache, an ensure has rebuilt
\* the list from 2 up to 11
C34_Witness ==
    /\ gen.op = "ensure"
    /\ gen.trims >= 1
    /\ gen.before.cache_limit = 0
    /\ gen.cached_primes = <<2, 3, 5, 7, 11>>

\* each segment returned starts one past the end of the one before, the
\* first at 0
GsContiguous ==
    \A i \in 1..Len(gs.lows) :
        /\ gs.lows[i] = (IF i = 1 THEN 0 ELSE gs.highs[i - 1] + 1)
        /\ gs.highs[i] >= gs.lows[i]

(* C35: across any sequence of get_next_segment and set_segment_size calls
   on a fresh SegmentedSieve each returned segment starts one past the end
   of the previous one (the first at 0), so the segments neither overlap nor
   leave a gap, and the returned lists, concatenated, are the increasing
   list of the primes in [0, get_current_range()] *)
C35_SegmentsTileThePrimes ==
    gs.calls >= 1 =>
        /\ GsContiguous
        /\ gs.current_high = gs.highs[Len(gs.highs)]
        /\ IsPrimeListUpTo(gs.returned, gs.current_high)

\* what does hold: the segments tile [0, current_high], and the lists
\* returned hold every prime of it in increasing order, but for the prime 2
\* when a segment of two or more values starts at 1
GsCompleteButForTwo ==
    gs.calls >= 1 =>
        /\ GsContiguous
        /\ \A i \in 1..(Len(gs.returned) - 1) : gs.returned[i] < gs.returned[i + 1]
        /\ Range(gs.returned)
               = {v \in 2..gs.current_high : IsPrime(v)}
                     \ (IF \E i \in 1..Len(gs.lows) :
                              gs.lows[i] = 1 /\ gs.highs[i] >= 2
                        THEN {2} ELSE {})

=============================================================================
